---- MODULE Spec2Model ----
(***************************************************************************)
(* A model of spring's workload generator: the key generators of           *)
(* spring/docgen.py and the worker pools of spring/wgen.py.                *)
(*                                                                         *)
(* Random draws are nondeterministic choices: an operator that models a    *)
(* generator returns the set of every result some draw can produce.  A     *)
(* Python exception is a result too (KeyRaised), so that "does not raise"  *)
(* is something the model can refute.                                      *)
(***************************************************************************)
EXTENDS Integers, Sequences, FiniteSets, Bags, TLC

(***************************************************************************)
(* Bounds of the model.                                                    *)
(***************************************************************************)
MaxCount == 6
    \* probes call the generators with counters in 0..MaxCount
MaxZipf == 8
    \* np.random.zipf draws 1..MaxZipf (the real support is unbounded)
PowerDen == 4
    \* np.random.power draws r = n / PowerDen, n in 0..PowerDen
MaxShards == 3
    \* probes of KeyForCASUpdate use 1..MaxShards n1ql workers

(***************************************************************************)
(* Program constants.                                                      *)
(***************************************************************************)
BATCH_SIZE == 100
RandintHigh == 100
    \* WorkingSetKey.next draws random.randint(0, 100), both ends included

(***************************************************************************)
(* Key: number and hit flag (prefix and formatter do not decide which      *)
(* number is drawn).  err = "none" for a key that was returned; otherwise  *)
(* err names the exception that next() raised and number is not a key.     *)
(***************************************************************************)
Key(number, hit) ==
    [err |-> "none", number |-> number, hit |-> hit]

KeyRaised(e) ==
    [err |-> e, number |-> -1, hit |-> FALSE]

NoKey ==
    [err |-> "nocall", number |-> -1, hit |-> FALSE]

\* random.randrange(left, right): every integer of [left, right); an empty
\* range raises ValueError.
RandRange(left, right, hit) ==
    IF left >= right
    THEN {KeyRaised("ValueError")}
    ELSE {Key(n, hit) : n \in left..(right - 1)}

\* int(x) of Python truncates toward zero; x = num / den with den > 0
TruncDiv(num, den) ==
    IF num >= 0 THEN num \div den ELSE -((-num) \div den)

\* int(a * pct / 100)
IntPct(a, pct) ==
    TruncDiv(a * pct, 100)

\* Python's a % b for b # 0: the result has the sign of the divisor
PyMod(a, b) ==
    IF b > 0 THEN a % b ELSE -((-a) % (-b))

(***************************************************************************)
(* The generators of docgen.py.                                            *)
(***************************************************************************)
NewOrderedKeyNext(curr_items) ==
    Key(curr_items, FALSE)

KeyForRemovalNext(curr_deletes) ==
    Key(curr_deletes, FALSE)

\* a uniform draw that takes the right boundary in
UniformKeyNextInclusive(curr_items, curr_deletes) ==
    RandRange(curr_deletes, curr_items + 1, FALSE)

UniformKeyNext(curr_items, curr_deletes) ==
    RandRange(curr_deletes, curr_items, FALSE)

\* WorkingSetKey.__init__
NumHotItems(ws) ==
    IntPct(ws.items, ws.working_set)

\* WorkingSetKey.next for one outcome p of random.randint(0, 100)
WorkingSetDraw(ws, curr_items, curr_deletes, p) ==
    LET num_cold_items == curr_items - NumHotItems(ws)
    IN  IF p <= ws.working_set_access
        THEN RandRange(num_cold_items, curr_items, TRUE)
        ELSE RandRange(curr_deletes, num_cold_items, FALSE)

WorkingSetKeyNext(ws, curr_items, curr_deletes) ==
    UNION {WorkingSetDraw(ws, curr_items, curr_deletes, p) : p \in 0..RandintHigh}

\* a ZipfKey.next that keeps the draw curr_items - z = curr_deletes
ZipfNumberStrict(curr_items, curr_deletes, z) ==
    LET number == curr_items - z
    IN  IF number < curr_deletes THEN curr_items - 1 ELSE number

\* ZipfKey.next for one draw z >= 1 of np.random.zipf
ZipfNumber(curr_items, curr_deletes, z) ==
    LET number == curr_items - z
    IN  IF number <= curr_deletes THEN curr_items - 1 ELSE number

ZipfKeyNext(curr_items, curr_deletes) ==
    {Key(ZipfNumber(curr_items, curr_deletes, z), FALSE) : z \in 1..MaxZipf}

\* PowerKey.next scaling the draw by the whole width of the range: the draw
\* r = 1 then gives curr_items, which C5 excludes
PowerNumberWholeWidth(curr_items, curr_deletes, n) ==
    curr_deletes + TruncDiv(n * (curr_items - curr_deletes), PowerDen)

\* PowerKey.next for one draw r = n / PowerDen of np.random.power, 0 <= r <= 1
PowerNumber(curr_items, curr_deletes, n) ==
    curr_deletes + TruncDiv(n * (curr_items - curr_deletes - 1), PowerDen)

PowerKeyNext(curr_items, curr_deletes) ==
    {Key(PowerNumber(curr_items, curr_deletes, n), FALSE) : n \in 0..PowerDen}

\* KeyForCASUpdate.next: np.random.random_integers(low, high) draws from
\* [low, high], both included, and raises ValueError when low > high.
CASLeft(n1ql_workers, sid, curr_items) ==
    sid * (curr_items \div n1ql_workers)

\* the right boundary handed to random_integers as it is, without the - 1:
\* neighbouring shards then share their boundary key, which C8 excludes
CASRightInclusive(n1ql_workers, sid, curr_items) ==
    CASLeft(n1ql_workers, sid, curr_items) + (curr_items \div n1ql_workers) + 1

CASRight(n1ql_workers, sid, curr_items) ==
    CASLeft(n1ql_workers, sid, curr_items) + (curr_items \div n1ql_workers)

KeyForCASUpdateNext(n1ql_workers, sid, curr_items) ==
    RandRange(CASLeft(n1ql_workers, sid, curr_items),
              CASRight(n1ql_workers, sid, curr_items), FALSE)

(***************************************************************************)
(* MovingWorkingSetKey.next, piecewise: the model of the worker runs the   *)
(* pieces as separate steps, one per access to the shared values.          *)
(***************************************************************************)
MovingNumHot(ws, curr_items, curr_deletes) ==
    IntPct(curr_items - curr_deletes, ws.working_set)

\* num_items = num_existing_items - num_hot_items
MovingNumItems(ws, curr_items, curr_deletes) ==
    (curr_items - curr_deletes) - MovingNumHot(ws, curr_items, curr_deletes)

\* the value stored into current_hot_load_start; the caller has excluded
\* num_items = 0 (ZeroDivisionError).  
MovingNewStart(ws, curr_items, curr_deletes, start) ==
    PyMod(start + ws.working_set_moving_docs,
          MovingNumItems(ws, curr_items, curr_deletes))

MovingDraw(ws, curr_items, curr_deletes, start) ==
    RandRange(curr_deletes + start,
              curr_deletes + start + MovingNumHot(ws, curr_items, curr_deletes),
              FALSE)

\* MovingWorkingSetKey.next run without interruption, for the values start
\* and timer of the two shared values when it is called
MovingWorkingSetKeyNext(ws, curr_items, curr_deletes, start, timer) ==
    IF timer # 0 /\ MovingNumItems(ws, curr_items, curr_deletes) = 0
    THEN {KeyRaised("ZeroDivisionError")}
    ELSE MovingDraw(ws, curr_items, curr_deletes,
                    IF timer # 0
                    THEN MovingNewStart(ws, curr_items, curr_deletes, start)
                    ELSE start)

\* float('inf'): the value of ws.ops of a run that only the timer ends and
\* of ws.throughput of a run without a throughput ceiling
Inf == 1000000

(***************************************************************************)
(* Workload settings (spring.settings.WorkloadSettings): the fields that   *)
(* wgen.py and the key generators read.  DefaultSettings holds the values  *)
(* of a workload that configures nothing.                                  *)
(***************************************************************************)
DefaultSettings ==
    [items |-> 4, workers |-> 1, ops |-> 200,
     creates |-> 0, reads |-> 0, updates |-> 0, deletes |-> 0,
     reads_and_updates |-> 0,
     working_set |-> 100, working_set_access |-> 100,
     working_set_move_time |-> 0, working_set_moving_docs |-> 0,
     power_alpha |-> 0, zipf_alpha |-> 0,
     n1ql_workers |-> 0, n1ql_op |-> "read", n1ql_batch_size |-> 1,
     query_workers |-> 0, async |-> FALSE, connections |-> 1,
     throughput |-> Inf]

\* Worker.init_keys: the class of self.existing_keys
ExistingKeys(s) ==
    IF s.working_set_move_time # 0 THEN "MovingWorkingSetKey"
    ELSE IF s.working_set < 100 THEN "WorkingSetKey"
    ELSE IF s.power_alpha # 0 THEN "PowerKey"
    ELSE IF s.zipf_alpha # 0 THEN "ZipfKey"
    ELSE "UniformKey"

\* self.existing_keys.next(curr_items, curr_deletes) and, for the classes
\* whose next() takes *args, next(curr_items, curr_deletes, start, timer).
\* MovingWorkingSetKey.next has four required parameters: called with two
\* it raises TypeError.
ExistingKeysNext(s, curr_items, curr_deletes) ==
    CASE ExistingKeys(s) = "MovingWorkingSetKey" -> {KeyRaised("TypeError")}
      [] ExistingKeys(s) = "WorkingSetKey" ->
            WorkingSetKeyNext(s, curr_items, curr_deletes)
      [] ExistingKeys(s) = "PowerKey" -> PowerKeyNext(curr_items, curr_deletes)
      [] ExistingKeys(s) = "ZipfKey" -> ZipfKeyNext(curr_items, curr_deletes)
      [] OTHER -> UniformKeyNext(curr_items, curr_deletes)

\* KVWorker.random_ops: the multiset of tokens of one batch; the shuffle is
\* the order in which the model takes them out.
RandomOps(s) ==
    [c |-> s.creates, r |-> s.reads, u |-> s.updates, d |-> s.deletes,
     m |-> s.reads_and_updates \div 2]

NoOps ==
    [c |-> 0, r |-> 0, u |-> 0, d |-> 0, m |-> 0]

(***************************************************************************)
(* State.                                                                  *)
(***************************************************************************)
VARIABLES
    ws,              \* the workload settings of the run
    curr_items,      \* Value('L', ws.items), shared by the three pools
    deleted_items,   \* Value('L', 0), shared by the three pools
    curr_ops,        \* the KV pool's Value('L', 0)
    kv_lock,         \* the KV pool's Lock(): TRUE while a KV worker holds it
    n1ql_lock,       \* the N1QL pool's Lock()
    current_hot_load_start,  \* Value('L'), start of the moving hot window
    timer_elapse,    \* Value('I'), set by the hot-window timer
    kv,              \* sid -> the KV worker's position and local variables
    nq,              \* sid -> the N1QL worker's position and local variables
    last,            \* the token that the step just taken resolved, if any
    kv_created,      \* bag of the key numbers given to KV create tokens
    reserved,        \* sum of the increments of the finished reservations
    tick_obs,        \* per timer tick, how many next() calls saw the flag set
    probe,           \* the last direct call of a generator (SpecGen)
    vw,              \* sid -> the view worker's position and local variables
    kv_deleted,      \* bag of the key numbers given to KV delete tokens
    shutdown_event,  \* WorkloadGen.shutdown_event: "none" (None), "clear", "set"
    timer,           \* WorkloadGen.timer, the abort Timer: "none" (None),
                     \* "idle", "started", "fired", "cancelled"
    sync,            \* the hot-window timer of self.sync: "none", "idle",
                     \* "started", "stopped"
    orch,            \* the position of WorkloadGen.run
    dumped,          \* the latency files written: <<NAME, sid>>
    faults           \* what the environment of this run may do

vars ==
    <<ws, curr_items, deleted_items, curr_ops, kv_lock, n1ql_lock,
      current_hot_load_start, timer_elapse, kv, nq, last, kv_created,
      reserved, tick_obs, probe, vw, kv_deleted, shutdown_event, timer,
      sync, orch, dumped, faults>>

\* what WorkloadGen.run and the end of the workers' run() work on
lifecycle ==
    <<shutdown_event, timer, sync, orch, dumped, faults>>

shared ==
    <<curr_items, deleted_items, curr_ops, kv_lock, n1ql_lock,
      current_hot_load_start, timer_elapse>>

KVSids == DOMAIN kv

NQSids == DOMAIN nq

VWSids == DOMAIN vw

NoLast ==
    [pool |-> "none", sid |-> 0, op |-> "none", key |-> NoKey]

NoProbe ==
    [gen |-> "none", s |-> DefaultSettings, curr_items |-> 0,
     curr_deletes |-> 0, sid |-> 0, start |-> 0, timer |-> 0, key |-> NoKey]

\* the connections of an AsyncKVWorker that the model runs
MaxConnections == 2

Conns == 1..MaxConnections

\* a KV worker at the top of the loop of run(); curr_items, deleted_items
\* and base (the value of curr_items that the batch read when it reserved)
\* are the locals of gen_cmd_sequence, tmp is the value read by a +=
KVStart ==
    [pc |-> "run", curr_items |-> 0, deleted_items |-> 0, base |-> 0,
     dbase |-> 0, tmp |-> 0, ops |-> NoOps, ncmds |-> 0,
     conn |-> 0, done |-> FALSE, reactor |-> "none",
     cstate |-> [i \in Conns |-> "none"], pending |-> [i \in Conns |-> 0],
     counter |-> [i \in Conns |-> 0]]

\* a view worker at the top of the loop of run(); curr_items_spot and
\* deleted_spot are the locals of do_batch
VWStart ==
    [pc |-> "run", curr_items_spot |-> 0, deleted_spot |-> 0, left |-> 0,
     batches |-> 0]

\* WorkloadGen.run inside wait_for_completion
OrchWaiting ==
    [pc |-> "wait", sid |-> 0]

\* an N1QL worker at the top of the loop of run()
NQStart ==
    [pc |-> "run", curr_items |-> 0, tmp |-> 0, left |-> 0, batches |-> 0,
     key |-> NoKey]

\* WorkloadGen.start_all_workers, start_workers and start_timers for
\* settings s and no abort timer: the shared values, one lock per pool,
\* every worker at the top of run(), the orchestrator waiting for them.
Start(s) ==
    /\ ws = s
    /\ curr_items = s.items
    /\ deleted_items = 0
    /\ curr_ops = 0
    /\ kv_lock = FALSE
    /\ n1ql_lock = FALSE
    /\ current_hot_load_start =
         IF s.working_set_move_time # 0 THEN IntPct(s.items, s.working_set) ELSE 0
    /\ timer_elapse = 0
    /\ kv = [sid \in 0..(s.workers - 1) |-> KVStart]
    /\ nq = [sid \in 0..(s.n1ql_workers - 1) |-> NQStart]
    /\ last = NoLast
    /\ kv_created = EmptyBag
    /\ reserved = 0
    /\ tick_obs = <<>>
    /\ vw = [sid \in 0..(s.query_workers - 1) |-> VWStart]
    /\ kv_deleted = EmptyBag
    /\ shutdown_event = "none"
    /\ timer = "none"
    /\ sync = IF s.working_set_move_time # 0 THEN "started" ELSE "none"
    /\ orch = OrchWaiting
    /\ dumped = {}
    /\ faults = {}

(***************************************************************************)
(* KV workers: KVWorker.run and gen_cmd_sequence, one action per access    *)
(* to a shared value.  A statement that only touches locals is part of     *)
(* the step before it.                                                     *)
(***************************************************************************)
Resolved(pool, sid, op, key) ==
    [pool |-> pool, sid |-> sid, op |-> op, key |-> key]

\* the worker's record after a token was resolved to key and its commands
\* (two for a modify token, one otherwise) were added to cmds; ncmds is
\* len(cmds).  An exception in
\* gen_cmd_sequence is caught nowhere in run() and ends the process
AfterToken(w, op, key) ==
    IF key.err = "none"
    THEN [w EXCEPT !.pc = "cmds", !.ops[op] = @ - 1,
                   !.ncmds = @ + (IF op = "m" THEN 2 ELSE 1)]
    ELSE [w EXCEPT !.pc = "crashed"]

\* a run with ws.ops = Inf never leaves the loop by itself: the model
\* lets a pool start a batch only while curr_ops < MaxCurrOps
MaxCurrOps == 200

\* a time_to_stop that never sees the event
TimeToStopNever ==
    FALSE

\* Worker.time_to_stop
TimeToStop ==
    shutdown_event # "none" /\ shutdown_event = "set"

\* a run_condition that lets one batch more be started
RunConditionInclusive ==
    curr_ops <= ws.ops /\ ~TimeToStop

\* KVWorker.run_condition
RunCondition ==
    curr_ops < ws.ops /\ ~TimeToStop

\* run(): while self.run_condition(curr_ops); when it is false the loop is
\* left by its else branch for dump_stats
KVRunCondition(sid) ==
    /\ kv[sid].pc = "run"
    /\ ~ws.async
    /\ (ws.ops = Inf /\ RunCondition) => curr_ops < MaxCurrOps
    /\ kv' = [kv EXCEPT ![sid].pc = IF RunCondition THEN "ops" ELSE "dump"]
    /\ last' = NoLast
    /\ UNCHANGED <<ws, shared, nq, kv_created, tick_obs, reserved, probe,
                   vw, kv_deleted, lifecycle>>

\* run(): the loop counts one operation where it starts a batch
KVCountOpsSingle(sid) ==
    /\ kv[sid].pc = "ops"
    /\ ~kv_lock
    /\ curr_ops' = curr_ops + 1
    /\ kv' = [kv EXCEPT ![sid].pc = "gen"]
    /\ last' = NoLast
    /\ UNCHANGED <<ws, curr_items, deleted_items, kv_lock, n1ql_lock,
                   current_hot_load_start, timer_elapse, nq, kv_created,
                   tick_obs, reserved, probe, vw, kv_deleted, lifecycle>>

\* run(): with lock: curr_ops.value += self.BATCH_SIZE
KVCountOps(sid) ==
    /\ kv[sid].pc = "ops"
    /\ ~kv_lock
    /\ curr_ops' = curr_ops + BATCH_SIZE
    /\ kv' = [kv EXCEPT ![sid].pc = "gen"]
    /\ last' = NoLast
    /\ UNCHANGED <<ws, curr_items, deleted_items, kv_lock, n1ql_lock,
                   current_hot_load_start, timer_elapse, nq, kv_created,
                   tick_obs, reserved, probe, vw, kv_deleted, lifecycle>>

\* gen_cmd_sequence: curr_items = self.ws.items; with creates, take the
\* lock and read curr_items = self.curr_items.value
KVReserveItems(sid) ==
    /\ kv[sid].pc = "gen"
    /\ IF ws.creates # 0
       THEN /\ ~kv_lock
            /\ kv_lock' = TRUE
            /\ kv' = [kv EXCEPT ![sid].pc = "items_read",
                                ![sid].curr_items = curr_items,
                                ![sid].base = curr_items]
       ELSE /\ kv_lock' = kv_lock
            /\ kv' = [kv EXCEPT ![sid].pc = "deleted",
                                ![sid].curr_items = ws.items,
                                ![sid].base = ws.items]
    /\ last' = NoLast
    /\ UNCHANGED <<ws, curr_items, deleted_items, curr_ops, n1ql_lock,
                   current_hot_load_start, timer_elapse, nq, kv_created,
                   tick_obs, reserved, probe, vw, kv_deleted, lifecycle>>

\* self.curr_items.value += self.ws.creates, the read
KVItemsRead(sid) ==
    /\ kv[sid].pc = "items_read"
    /\ kv' = [kv EXCEPT ![sid].pc = "items_write", ![sid].tmp = curr_items]
    /\ last' = NoLast
    /\ UNCHANGED <<ws, shared, nq, kv_created, tick_obs, reserved, probe,
                   vw, kv_deleted, lifecycle>>

\* self.curr_items.value += self.ws.creates, the write; the lock is released
KVItemsWrite(sid) ==
    /\ kv[sid].pc = "items_write"
    /\ curr_items' = kv[sid].tmp + ws.creates
    /\ kv_lock' = FALSE
    /\ kv' = [kv EXCEPT ![sid].pc = "deleted", ![sid].tmp = 0]
    /\ last' = NoLast
    /\ reserved' = reserved + ws.creates
    /\ UNCHANGED <<ws, deleted_items, curr_ops, n1ql_lock,
                   current_hot_load_start, timer_elapse, nq, kv_created,
                   tick_obs, probe, vw, kv_deleted, lifecycle>>

\* a reservation that leaves the shared deleted_items as it was
KVReserveDeletedNoAdvance(sid) ==
    /\ kv[sid].pc = "deleted"
    /\ ws.deletes # 0 => ~kv_lock
    /\ deleted_items' = deleted_items
    /\ kv' = [kv EXCEPT ![sid].pc = "cmds",
                        ![sid].deleted_items =
                            IF ws.deletes # 0
                            THEN deleted_items + ws.deletes * ws.workers
                            ELSE 0,
                        ![sid].dbase = IF ws.deletes # 0 THEN deleted_items ELSE 0,
                        ![sid].ops = RandomOps(ws)]
    /\ last' = NoLast
    /\ UNCHANGED <<ws, curr_items, curr_ops, kv_lock, n1ql_lock,
                   current_hot_load_start, timer_elapse, nq, kv_created,
                   tick_obs, reserved, probe, vw, kv_deleted, lifecycle>>

\* dbase is the value of self.deleted_items.value that the reservation
\* read: the block that this batch reserves is [dbase, dbase + deletes).
\* deleted_items = 0; with deletes, under the lock:
\* deleted_items = self.deleted_items.value + deletes * workers and
\* self.deleted_items.value += deletes (only KV workers write it, all
\* under this lock).  Then random_ops is drawn for the loop.
KVReserveDeleted(sid) ==
    /\ kv[sid].pc = "deleted"
    /\ IF ws.deletes # 0
       THEN /\ ~kv_lock
            /\ deleted_items' = deleted_items + ws.deletes
            /\ kv' = [kv EXCEPT ![sid].pc = "cmds",
                                ![sid].deleted_items =
                                    deleted_items + ws.deletes * ws.workers,
                                ![sid].dbase = deleted_items,
                                ![sid].ops = RandomOps(ws)]
       ELSE /\ deleted_items' = deleted_items
            /\ kv' = [kv EXCEPT ![sid].pc = "cmds",
                                ![sid].deleted_items = 0,
                                ![sid].dbase = 0,
                                ![sid].ops = RandomOps(ws)]
    /\ last' = NoLast
    /\ UNCHANGED <<ws, curr_items, curr_ops, kv_lock, n1ql_lock,
                   current_hot_load_start, timer_elapse, nq, kv_created,
                   tick_obs, reserved, probe, vw, kv_deleted, lifecycle>>

\* op == 'c': create_args, then curr_items += 1
KVCreateArgs(sid) ==
    /\ kv[sid].pc = "cmds"
    /\ kv[sid].ops.c > 0
    /\ LET key == NewOrderedKeyNext(kv[sid].curr_items)
       IN  /\ last' = Resolved("kv", sid, "c", key)
           /\ kv_created' = kv_created (+) SetToBag({key.number})
           /\ kv' = [kv EXCEPT ![sid].ops.c = @ - 1,
                               ![sid].ncmds = @ + 1,
                               ![sid].curr_items = @ + 1]
    /\ UNCHANGED <<ws, shared, nq, tick_obs, reserved, probe, vw,
                   kv_deleted, lifecycle>>

\* the read tokens of a batch are steps of their own (KVReadArgs) unless
\* the batch has more than MaxReadsSeen tokens and all of them are reads:
\* these are resolved in one step (KVReadAll)
MaxReadsSeen == 2

ReadsOnly(s) ==
    s.reads > MaxReadsSeen /\ RandomOps(s) = [NoOps EXCEPT !.r = s.reads]

\* op == 'r': read_args
KVReadArgs(sid) ==
    /\ kv[sid].pc = "cmds"
    /\ kv[sid].ops.r > 0
    /\ ~ReadsOnly(ws)
    /\ \E key \in ExistingKeysNext(ws, kv[sid].curr_items, kv[sid].deleted_items) :
          /\ last' = Resolved("kv", sid, "r", key)
          /\ kv' = [kv EXCEPT ![sid] = AfterToken(@, "r", key)]
    /\ UNCHANGED <<ws, shared, nq, kv_created, tick_obs, reserved, probe,
                   vw, kv_deleted, lifecycle>>

\* op == 'r' for every token of a batch of reads: each read_args call gets
\* the same curr_items and deleted_items and any of them may raise; last
\* holds one of the keys
KVReadAll(sid) ==
    /\ kv[sid].pc = "cmds"
    /\ kv[sid].ops.r > 0
    /\ ReadsOnly(ws)
    /\ \E key \in ExistingKeysNext(ws, kv[sid].curr_items, kv[sid].deleted_items) :
          /\ last' = Resolved("kv", sid, "r", key)
          /\ kv' = [kv EXCEPT ![sid] =
                        AfterToken([@ EXCEPT !.ops.r = 1,
                                             !.ncmds = @ + kv[sid].ops.r - 1],
                                   "r", key)]
    /\ UNCHANGED <<ws, shared, nq, kv_created, tick_obs, reserved, probe,
                   vw, kv_deleted, lifecycle>>

\* op == 'm': modify_args, one key for the get and the set
KVModifyArgs(sid) ==
    /\ kv[sid].pc = "cmds"
    /\ kv[sid].ops.m > 0
    /\ \E key \in ExistingKeysNext(ws, kv[sid].curr_items, kv[sid].deleted_items) :
          /\ last' = Resolved("kv", sid, "m", key)
          /\ kv' = [kv EXCEPT ![sid] = AfterToken(@, "m", key)]
    /\ UNCHANGED <<ws, shared, nq, kv_created, tick_obs, reserved, probe,
                   vw, kv_deleted, lifecycle>>

\* op == 'd': delete_args, then deleted_items += 1
KVDeleteArgs(sid) ==
    /\ kv[sid].pc = "cmds"
    /\ kv[sid].ops.d > 0
    /\ LET key == KeyForRemovalNext(kv[sid].deleted_items)
       IN  /\ last' = Resolved("kv", sid, "d", key)
           /\ kv_deleted' = kv_deleted (+) SetToBag({key.number})
           /\ kv' = [kv EXCEPT ![sid].ops.d = @ - 1,
                               ![sid].ncmds = @ + 1,
                               ![sid].deleted_items = @ + 1]
    /\ UNCHANGED <<ws, shared, nq, kv_created, tick_obs, reserved, probe,
                   vw, lifecycle>>

\* op == 'u': update_args passes current_hot_load_start and timer_elapse;
\* the classes other than MovingWorkingSetKey take them as *args and
\* ignore them.  MovingWorkingSetKey.next starts with the locals
\* num_existing_items and num_hot_items and goes on in KVMoving* below.
KVUpdateArgs(sid) ==
    /\ kv[sid].pc = "cmds"
    /\ kv[sid].ops.u > 0
    /\ IF ExistingKeys(ws) = "MovingWorkingSetKey"
       THEN /\ kv' = [kv EXCEPT ![sid].pc = "timer_read"]
            /\ last' = NoLast
       ELSE \E key \in ExistingKeysNext(ws, kv[sid].curr_items,
                                        kv[sid].deleted_items) :
               /\ last' = Resolved("kv", sid, "u", key)
               /\ kv' = [kv EXCEPT ![sid] = AfterToken(@, "u", key)]
    /\ UNCHANGED <<ws, shared, nq, kv_created, tick_obs, reserved, probe,
                   vw, kv_deleted, lifecycle>>

\* if timer_elapse.value:
KVMovingTimerRead(sid) ==
    /\ kv[sid].pc = "timer_read"
    /\ IF timer_elapse # 0
       THEN /\ kv' = [kv EXCEPT ![sid].pc = "timer_clear"]
            /\ tick_obs' = [tick_obs EXCEPT ![Len(tick_obs)] = @ + 1]
       ELSE /\ kv' = [kv EXCEPT ![sid].pc = "draw"]
            /\ tick_obs' = tick_obs
    /\ last' = NoLast
    /\ UNCHANGED <<ws, shared, nq, kv_created, reserved, probe, vw,
                   kv_deleted, lifecycle>>

\* timer_elapse.value = 0
KVMovingTimerClear(sid) ==
    /\ kv[sid].pc = "timer_clear"
    /\ timer_elapse' = 0
    /\ kv' = [kv EXCEPT ![sid].pc = "start_read"]
    /\ last' = NoLast
    /\ UNCHANGED <<ws, curr_items, deleted_items, curr_ops, kv_lock,
                   n1ql_lock, current_hot_load_start, nq, kv_created,
                   tick_obs, reserved, probe, vw, kv_deleted, lifecycle>>

\* offset = current_hot_load_start.value + self.working_set_moving_docs
KVMovingStartRead(sid) ==
    /\ kv[sid].pc = "start_read"
    /\ kv' = [kv EXCEPT ![sid].pc = "start_write",
                        ![sid].tmp = current_hot_load_start]
    /\ last' = NoLast
    /\ UNCHANGED <<ws, shared, nq, kv_created, tick_obs, reserved, probe,
                   vw, kv_deleted, lifecycle>>

\* current_hot_load_start.value = int(offset % num_items); num_items = 0
\* raises ZeroDivisionError
KVMovingStartWrite(sid) ==
    /\ kv[sid].pc = "start_write"
    /\ IF MovingNumItems(ws, kv[sid].curr_items, kv[sid].deleted_items) = 0
       THEN /\ current_hot_load_start' = current_hot_load_start
            /\ kv' = [kv EXCEPT ![sid].pc = "crashed"]
            /\ last' = Resolved("kv", sid, "u", KeyRaised("ZeroDivisionError"))
       ELSE /\ current_hot_load_start' =
                 MovingNewStart(ws, kv[sid].curr_items,
                                kv[sid].deleted_items, kv[sid].tmp)
            /\ kv' = [kv EXCEPT ![sid].pc = "draw", ![sid].tmp = 0]
            /\ last' = NoLast
    /\ UNCHANGED <<ws, curr_items, deleted_items, curr_ops, kv_lock,
                   n1ql_lock, timer_elapse, nq, kv_created, tick_obs,
                   reserved, probe, vw, kv_deleted, lifecycle>>

\* left_boundary = curr_deletes + current_hot_load_start.value, and the draw
KVMovingDraw(sid) ==
    /\ kv[sid].pc = "draw"
    /\ \E key \in MovingDraw(ws, kv[sid].curr_items, kv[sid].deleted_items,
                             current_hot_load_start) :
          /\ last' = Resolved("kv", sid, "u", key)
          /\ kv' = [kv EXCEPT ![sid] = AfterToken(@, "u", key)]
    /\ UNCHANGED <<ws, shared, nq, kv_created, tick_obs, reserved, probe,
                   vw, kv_deleted, lifecycle>>

\* the for loop of gen_cmd_sequence is over and its locals are gone:
\* do_batch runs the commands against the client and run() goes back to
\* its loop condition
KVDoBatch(sid) ==
    /\ kv[sid].pc = "cmds"
    /\ kv[sid].ops = NoOps
    /\ ~ws.async
    /\ kv' = [kv EXCEPT ![sid] = KVStart]
    /\ last' = NoLast
    /\ UNCHANGED <<ws, shared, nq, kv_created, tick_obs, reserved, probe,
                   vw, kv_deleted, lifecycle>>

\* do_batch: latency = func(*args) with a client operation that raises.
\* Neither do_batch nor with_sleep handles it and run() catches only
\* KeyboardInterrupt: the exception ends the process before dump_stats.
KVOpRaises(sid) ==
    /\ "op_raises" \in faults
    /\ kv[sid].pc = "cmds"
    /\ kv[sid].ops = NoOps
    /\ ~ws.async
    /\ kv' = [kv EXCEPT ![sid] = [KVStart EXCEPT !.pc = "crashed"]]
    /\ last' = NoLast
    /\ UNCHANGED <<ws, shared, nq, kv_created, tick_obs, reserved, probe,
                   vw, kv_deleted, lifecycle>>

\* the positions of a KV worker inside the try block of run()
KVInLoop ==
    {"run", "ops", "gen", "items_read", "items_write", "deleted", "cmds",
     "timer_read", "timer_clear", "start_read", "start_write", "draw"}

\* run(): except KeyboardInterrupt, raised anywhere in the loop; a lock
\* held by a with statement is released on the way out
KVInterrupt(sid) ==
    /\ "sigint" \in faults
    /\ ~ws.async
    /\ kv[sid].pc \in KVInLoop
    /\ kv_lock' = IF kv[sid].pc \in {"items_read", "items_write"}
                  THEN FALSE ELSE kv_lock
    /\ kv' = [kv EXCEPT ![sid] = [KVStart EXCEPT !.pc = "dump"]]
    /\ last' = NoLast
    /\ UNCHANGED <<ws, curr_items, deleted_items, curr_ops, n1ql_lock,
                   current_hot_load_start, timer_elapse, nq, kv_created,
                   tick_obs, reserved, probe, vw, kv_deleted, lifecycle>>

\* Worker.dump_stats, the last statement of run(): the file NAME-sid
DumpStats(name, sid) ==
    /\ dumped' = dumped \cup {<<name, sid>>}
    /\ UNCHANGED <<shutdown_event, timer, sync, orch, faults>>

KVDumpStats(sid) ==
    /\ kv[sid].pc = "dump"
    /\ kv' = [kv EXCEPT ![sid].pc = "returned"]
    /\ DumpStats("kv-worker", sid)
    /\ last' = NoLast
    /\ UNCHANGED <<ws, shared, nq, kv_created, tick_obs, reserved, probe,
                   vw, kv_deleted>>

(***************************************************************************)
(* AsyncKVWorker: run() calls connect() on each of its connections and     *)
(* enters reactor.run(); from then on the worker's single thread runs one  *)
(* callback at a time (do_batch, restart, log_and_restart, error).         *)
(* do_batch counts the operations and builds the batch as the KV worker    *)
(* does (KVCountOps to the KV*Args actions above), for the connection      *)
(* conn.  The worker has NUM_CONNECTIONS = 8 connections; the model runs   *)
(* ws.connections of them, at most MaxConnections.                         *)
(***************************************************************************)
\* the fields of a worker's record that outlive a batch
AKVIdle(w) ==
    [KVStart EXCEPT !.pc = "reactor", !.cstate = w.cstate,
                    !.counter = w.counter, !.pending = w.pending,
                    !.conn = w.conn, !.done = w.done, !.reactor = w.reactor]

\* the model lets a connection start a batch only when curr_ops stays
\* within MaxCurrOps
CanCount ==
    curr_ops + BATCH_SIZE <= MaxCurrOps

\* init_db: self.counter = list(range(self.NUM_CONNECTIONS)); run():
\* self.done = False; for i, cb in enumerate(self.cbs):
\* d = cb.client.connect(); reactor.run()
AKVRun(sid) ==
    /\ kv[sid].pc = "run"
    /\ ws.async
    /\ kv' = [kv EXCEPT ![sid].pc = "reactor",
                        ![sid].reactor = "running",
                        ![sid].done = FALSE,
                        ![sid].counter = [i \in Conns |-> i - 1],
                        ![sid].cstate = [i \in Conns |->
                                           IF i <= ws.connections
                                           THEN "connecting" ELSE "none"]]
    /\ last' = NoLast
    /\ UNCHANGED <<ws, shared, nq, kv_created, tick_obs, reserved, probe,
                   vw, kv_deleted, lifecycle>>

\* do_batch(_, cb, i), its first statements: self.counter[i] = 0
DoBatch(w, i) ==
    [w EXCEPT !.pc = "ops", !.conn = i, !.counter[i] = 0]

\* the deferred of connect() fires its callback: do_batch(_, cb, i)
AKVConnect(sid, i) ==
    /\ kv[sid].pc = "reactor"
    /\ kv[sid].cstate[i] = "connecting"
    /\ CanCount
    /\ kv' = [kv EXCEPT ![sid] = DoBatch([@ EXCEPT !.cstate[i] = "up"], i)]
    /\ last' = NoLast
    /\ UNCHANGED <<ws, shared, nq, kv_created, tick_obs, reserved, probe,
                   vw, kv_deleted, lifecycle>>

\* the number of commands that gen_cmd_sequence returns
NumCmds(s) ==
    s.creates + s.reads + s.updates + s.deletes + 2 * (s.reads_and_updates \div 2)

\* do_batch: for _, func, args in self.gen_cmd_sequence(cb): d = func(*args);
\* the callback returns to the reactor with the operations under way
AKVIssue(sid) ==
    /\ kv[sid].pc = "cmds"
    /\ kv[sid].ops = NoOps
    /\ ws.async
    /\ kv' = [kv EXCEPT ![sid] =
                 AKVIdle([@ EXCEPT !.pending[@.conn] = @ + NumCmds(ws)])]
    /\ last' = NoLast
    /\ UNCHANGED <<ws, shared, nq, kv_created, tick_obs, reserved, probe,
                   vw, kv_deleted, lifecycle>>

\* a restart that does not look at the shutdown event
RestartEndIgnoresShutdown(w, i) ==
    IF ~w.done /\ curr_ops >= ws.ops
    THEN [w EXCEPT !.pc = "reactor", !.done = TRUE, !.reactor = "stopping"]
    ELSE DoBatch(w, i)

\* restart, from self.report_progress on: done and reactor.stop(), or the
\* next do_batch
RestartEnd(w, i) ==
    IF ~w.done /\ (curr_ops >= ws.ops \/ TimeToStop)
    THEN [w EXCEPT !.pc = "reactor", !.done = TRUE, !.reactor = "stopping"]
    ELSE DoBatch(w, i)

\* restart (after log_and_restart when the operation failed), the callback
\* of one operation of connection i: self.counter[i] += 1 and, at
\* BATCH_SIZE, with a target_time that is not reached yet, time.sleep
AKVRestart(sid, i) ==
    /\ kv[sid].pc = "reactor"
    /\ kv[sid].pending[i] > 0
    /\ LET w == [kv[sid] EXCEPT !.pending[i] = @ - 1, !.counter[i] = @ + 1]
       IN  IF w.counter[i] # BATCH_SIZE
           THEN kv' = [kv EXCEPT ![sid] = w]
           ELSE \/ /\ ws.throughput < Inf
                   /\ kv' = [kv EXCEPT ![sid] = [w EXCEPT !.pc = "sleep", !.conn = i]]
                \/ /\ RestartEnd(w, i).pc = "ops" => CanCount
                   /\ kv' = [kv EXCEPT ![sid] = RestartEnd(w, i)]
    /\ \E failed \in (IF "op_fails" \in faults THEN BOOLEAN ELSE {FALSE}) :
          last' = IF failed THEN Resolved("kv", sid, "failed", NoKey) ELSE NoLast
    /\ UNCHANGED <<ws, shared, nq, kv_created, tick_obs, reserved, probe,
                   vw, kv_deleted, lifecycle>>

\* restart: time.sleep(self.CORRECTION_FACTOR * delta) returns
AKVPaced(sid) ==
    /\ kv[sid].pc = "sleep"
    /\ kv[sid].cstate[kv[sid].conn] = "up"
    /\ RestartEnd(kv[sid], kv[sid].conn).pc = "ops" => CanCount
    /\ kv' = [kv EXCEPT ![sid] = RestartEnd(@, @.conn)]
    /\ last' = NoLast
    /\ UNCHANGED <<ws, shared, nq, kv_created, tick_obs, reserved, probe,
                   vw, kv_deleted, lifecycle>>

\* an error handler that lets the failure out of the callback
AKVErrorRaises(sid, i) ==
    /\ "conn_fails" \in faults
    /\ kv[sid].pc = "reactor"
    /\ kv[sid].cstate[i] = "connecting"
    /\ kv' = [kv EXCEPT ![sid] = [KVStart EXCEPT !.pc = "crashed"]]
    /\ last' = NoLast
    /\ UNCHANGED <<ws, shared, nq, kv_created, tick_obs, reserved, probe,
                   vw, kv_deleted, lifecycle>>

\* the deferred of connect() fires its errback: error(err, cb, i) logs,
\* cb.client._close() and time.sleep(15)
AKVError(sid, i) ==
    /\ "conn_fails" \in faults
    /\ kv[sid].pc = "reactor"
    /\ kv[sid].cstate[i] = "connecting"
    /\ kv' = [kv EXCEPT ![sid].pc = "sleep", ![sid].conn = i,
                        ![sid].cstate[i] = "closed"]
    /\ last' = NoLast
    /\ UNCHANGED <<ws, shared, nq, kv_created, tick_obs, reserved, probe,
                   vw, kv_deleted, lifecycle>>

\* error: time.sleep(15) returns; d = cb.client.connect() with do_batch as
\* callback and error as errback
AKVReconnect(sid) ==
    /\ kv[sid].pc = "sleep"
    /\ kv[sid].cstate[kv[sid].conn] = "closed"
    /\ kv' = [kv EXCEPT ![sid].pc = "reactor",
                        ![sid].cstate[kv[sid].conn] = "connecting"]
    /\ last' = NoLast
    /\ UNCHANGED <<ws, shared, nq, kv_created, tick_obs, reserved, probe,
                   vw, kv_deleted, lifecycle>>

\* after reactor.stop() the reactor runs the callbacks of the events that it
\* has read already (restart tests self.done for them) and then
\* reactor.run() and run() return
AKVReactorReturns(sid) ==
    /\ kv[sid].pc = "reactor"
    /\ kv[sid].reactor = "stopping"
    /\ kv' = [kv EXCEPT ![sid] = [KVStart EXCEPT !.pc = "returned"]]
    /\ last' = NoLast
    /\ UNCHANGED <<ws, shared, nq, kv_created, tick_obs, reserved, probe,
                   vw, kv_deleted, lifecycle>>

(***************************************************************************)
(* N1QL workers: N1QLWorker.run, do_batch, read, create and update.  run() *)
(* loops until the shutdown event; the model stops a worker after          *)
(* MaxN1QLBatches batches.                                                 *)
(***************************************************************************)
MaxN1QLBatches == 2

\* do_batch with n1ql_op == 'read': curr_items = self.curr_items.value
NQRead(sid) ==
    /\ nq[sid].pc = "run"
    /\ ~TimeToStop
    /\ nq[sid].batches < MaxN1QLBatches
    /\ ws.n1ql_op = "read"
    /\ nq' = [nq EXCEPT ![sid].pc = "read", ![sid].curr_items = curr_items,
                        ![sid].left = ws.n1ql_batch_size]
    /\ last' = NoLast
    /\ UNCHANGED <<ws, shared, kv, kv_created, tick_obs, reserved, probe,
                   vw, kv_deleted, lifecycle>>

\* read(): key = self.existing_keys.next(curr_items=curr_items, curr_deletes=0)
NQReadKey(sid) ==
    /\ nq[sid].pc = "read"
    /\ nq[sid].left > 0
    /\ \E key \in ExistingKeysNext(ws, nq[sid].curr_items, 0) :
          /\ last' = Resolved("n1ql", sid, "r", key)
          /\ nq' = [nq EXCEPT ![sid].key = key,
                              ![sid].left = @ - 1,
                              ![sid].pc = IF key.err = "none" THEN "read"
                                          ELSE "crashed"]
    /\ UNCHANGED <<ws, shared, kv, kv_created, tick_obs, reserved, probe,
                   vw, kv_deleted, lifecycle>>

\* do_batch with n1ql_op == 'create': with self.lock:
\* curr_items = self.curr_items.value
NQCreate(sid) ==
    /\ nq[sid].pc = "run"
    /\ ~TimeToStop
    /\ nq[sid].batches < MaxN1QLBatches
    /\ ws.n1ql_op = "create"
    /\ ~n1ql_lock
    /\ n1ql_lock' = TRUE
    /\ nq' = [nq EXCEPT ![sid].pc = "items_read", ![sid].curr_items = curr_items]
    /\ last' = NoLast
    /\ UNCHANGED <<ws, curr_items, deleted_items, curr_ops, kv_lock,
                   current_hot_load_start, timer_elapse, kv, kv_created,
                   tick_obs, reserved, probe, vw, kv_deleted, lifecycle>>

\* self.curr_items.value += self.ws.n1ql_batch_size, the read
NQItemsRead(sid) ==
    /\ nq[sid].pc = "items_read"
    /\ nq' = [nq EXCEPT ![sid].pc = "items_write", ![sid].tmp = curr_items]
    /\ last' = NoLast
    /\ UNCHANGED <<ws, shared, kv, kv_created, tick_obs, reserved, probe,
                   vw, kv_deleted, lifecycle>>

\* self.curr_items.value += self.ws.n1ql_batch_size, the write; the lock
\* is released
NQItemsWrite(sid) ==
    /\ nq[sid].pc = "items_write"
    /\ curr_items' = nq[sid].tmp + ws.n1ql_batch_size
    /\ n1ql_lock' = FALSE
    /\ nq' = [nq EXCEPT ![sid].pc = "create", ![sid].tmp = 0,
                        ![sid].left = ws.n1ql_batch_size]
    /\ last' = NoLast
    /\ reserved' = reserved + ws.n1ql_batch_size
    /\ UNCHANGED <<ws, deleted_items, curr_ops, kv_lock,
                   current_hot_load_start, timer_elapse, kv, kv_created,
                   tick_obs, probe, vw, kv_deleted, lifecycle>>

\* create(): curr_items += 1; key = self.new_keys.next(curr_items=curr_items)
NQCreateKey(sid) ==
    /\ nq[sid].pc = "create"
    /\ nq[sid].left > 0
    /\ LET key == NewOrderedKeyNext(nq[sid].curr_items + 1)
       IN  /\ last' = Resolved("n1ql", sid, "c", key)
           /\ nq' = [nq EXCEPT ![sid].key = key, ![sid].left = @ - 1,
                               ![sid].curr_items = @ + 1]
    /\ UNCHANGED <<ws, shared, kv, kv_created, tick_obs, reserved, probe,
                   vw, kv_deleted, lifecycle>>

\* do_batch with n1ql_op == 'update': with self.lock:
\* curr_items = self.curr_items.value
NQUpdate(sid) ==
    /\ nq[sid].pc = "run"
    /\ ~TimeToStop
    /\ nq[sid].batches < MaxN1QLBatches
    /\ ws.n1ql_op = "update"
    /\ ~n1ql_lock
    /\ nq' = [nq EXCEPT ![sid].pc = "update", ![sid].curr_items = curr_items,
                        ![sid].left = ws.n1ql_batch_size]
    /\ last' = NoLast
    /\ UNCHANGED <<ws, shared, kv, kv_created, tick_obs, reserved, probe,
                   vw, kv_deleted, lifecycle>>

\* update(): key = self.keys_for_cas_update.next(sid=self.sid,
\* curr_items=curr_items)
NQUpdateKey(sid) ==
    /\ nq[sid].pc = "update"
    /\ nq[sid].left > 0
    /\ \E key \in KeyForCASUpdateNext(ws.n1ql_workers, sid, nq[sid].curr_items) :
          /\ last' = Resolved("n1ql", sid, "u", key)
          /\ nq' = [nq EXCEPT ![sid].key = key,
                              ![sid].left = @ - 1,
                              ![sid].pc = IF key.err = "none" THEN "update"
                                          ELSE "crashed"]
    /\ UNCHANGED <<ws, shared, kv, kv_created, tick_obs, reserved, probe,
                   vw, kv_deleted, lifecycle>>

\* the for loop of read(), create() or update() is over
NQDoBatch(sid) ==
    /\ nq[sid].pc \in {"read", "create", "update"}
    /\ nq[sid].left = 0
    /\ nq' = [nq EXCEPT ![sid] = [NQStart EXCEPT !.batches = nq[sid].batches + 1]]
    /\ last' = NoLast
    /\ UNCHANGED <<ws, shared, kv, kv_created, tick_obs, reserved, probe,
                   vw, kv_deleted, lifecycle>>

\* a loop that also ends when the KV pool has counted ws.ops operations
NQStopAtTotal(sid) ==
    /\ nq[sid].pc = "run"
    /\ TimeToStop \/ curr_ops >= ws.ops
    /\ nq' = [nq EXCEPT ![sid].pc = "dump"]
    /\ last' = NoLast
    /\ UNCHANGED <<ws, shared, kv, kv_created, tick_obs, reserved, probe,
                   vw, kv_deleted, lifecycle>>

\* run(): while not self.time_to_stop() finds the event set
NQStop(sid) ==
    /\ nq[sid].pc = "run"
    /\ TimeToStop
    /\ nq' = [nq EXCEPT ![sid].pc = "dump"]
    /\ last' = NoLast
    /\ UNCHANGED <<ws, shared, kv, kv_created, tick_obs, reserved, probe,
                   vw, kv_deleted, lifecycle>>

NQDumpStats(sid) ==
    /\ nq[sid].pc = "dump"
    /\ nq' = [nq EXCEPT ![sid].pc = "returned"]
    /\ DumpStats("query-worker", sid)
    /\ last' = NoLast
    /\ UNCHANGED <<ws, shared, kv, kv_created, tick_obs, reserved, probe,
                   vw, kv_deleted>>

(***************************************************************************)
(* View workers: ViewWorker.run and do_batch.  run() loops until the       *)
(* shutdown event; the model stops a worker after MaxViewBatches batches.  *)
(* Of the BATCH_SIZE queries of a batch the first MaxViewSeen are steps of *)
(* their own and the others are one step.                                  *)
(***************************************************************************)
MaxViewBatches == 2

MaxViewSeen == 2

\* do_batch: curr_items_spot = self.curr_items.value - creates * workers
VWItemsSpot(sid) ==
    /\ vw[sid].pc = "run"
    /\ ~TimeToStop
    /\ vw[sid].batches < MaxViewBatches
    /\ vw' = [vw EXCEPT ![sid].pc = "deleted_spot",
                        ![sid].curr_items_spot =
                            curr_items - ws.creates * ws.workers]
    /\ last' = NoLast
    /\ UNCHANGED <<ws, shared, kv, nq, kv_created, tick_obs, reserved, probe,
                   kv_deleted, lifecycle>>

\* do_batch: deleted_spot = self.deleted_items.value + deletes * workers
VWDeletedSpot(sid) ==
    /\ vw[sid].pc = "deleted_spot"
    /\ vw' = [vw EXCEPT ![sid].pc = "query",
                        ![sid].deleted_spot =
                            deleted_items + ws.deletes * ws.workers,
                        ![sid].left = BATCH_SIZE]
    /\ last' = NoLast
    /\ UNCHANGED <<ws, shared, kv, nq, kv_created, tick_obs, reserved, probe,
                   kv_deleted, lifecycle>>

\* do_batch: key = self.existing_keys.next(curr_items_spot, deleted_spot);
\* an exception of the generator is caught nowhere and ends the process
VWQuery(sid) ==
    /\ vw[sid].pc = "query"
    /\ vw[sid].left > 0
    /\ \E key \in ExistingKeysNext(ws, vw[sid].curr_items_spot,
                                    vw[sid].deleted_spot) :
          /\ last' = Resolved("view", sid, "r", key)
          /\ vw' = [vw EXCEPT
                      ![sid].pc = IF key.err = "none" THEN "query" ELSE "crashed",
                      ![sid].left = IF BATCH_SIZE - @ < MaxViewSeen
                                    THEN @ - 1 ELSE 0]
    /\ UNCHANGED <<ws, shared, kv, nq, kv_created, tick_obs, reserved, probe,
                   kv_deleted, lifecycle>>

\* the for loop of do_batch is over
VWDoBatch(sid) ==
    /\ vw[sid].pc = "query"
    /\ vw[sid].left = 0
    /\ vw' = [vw EXCEPT ![sid] = [VWStart EXCEPT !.batches = vw[sid].batches + 1]]
    /\ last' = NoLast
    /\ UNCHANGED <<ws, shared, kv, nq, kv_created, tick_obs, reserved, probe,
                   kv_deleted, lifecycle>>

\* run(): while not self.time_to_stop() finds the event set
VWStop(sid) ==
    /\ vw[sid].pc = "run"
    /\ TimeToStop
    /\ vw' = [vw EXCEPT ![sid].pc = "dump"]
    /\ last' = NoLast
    /\ UNCHANGED <<ws, shared, kv, nq, kv_created, tick_obs, reserved, probe,
                   kv_deleted, lifecycle>>

VWDumpStats(sid) ==
    /\ vw[sid].pc = "dump"
    /\ vw' = [vw EXCEPT ![sid].pc = "returned"]
    /\ DumpStats("query-worker", sid)
    /\ last' = NoLast
    /\ UNCHANGED <<ws, shared, kv, nq, kv_created, tick_obs, reserved, probe,
                   kv_deleted>>

(***************************************************************************)
(* The hot-window timer (perfrunner.helpers.sync.SyncHotWorkload, started  *)
(* by start_timers when working_set_move_time is set): every period it     *)
(* sets timer_elapse.  The model fires it at most MaxTicks times.          *)
(***************************************************************************)
MaxTicks == 3

TimerTick ==
    /\ ws.working_set_move_time # 0
    /\ sync = "started"
    /\ Len(tick_obs) < MaxTicks
    /\ timer_elapse' = 1
    /\ tick_obs' = Append(tick_obs, 0)
    /\ last' = NoLast
    /\ UNCHANGED <<ws, curr_items, deleted_items, curr_ops, kv_lock,
                   n1ql_lock, current_hot_load_start, kv, nq, kv_created,
                   reserved, probe, vw, kv_deleted, lifecycle>>

(***************************************************************************)
(* The orchestrator: WorkloadGen.run with start_all_workers,               *)
(* start_workers, start_timers, wait_for_completion and stop_timers, and   *)
(* the abort Timer of __init__.  store_pid and set_signal_handler change   *)
(* nothing that the model holds.                                           *)
(***************************************************************************)

\* the positions at which a worker process is over
Final ==
    {"returned", "crashed", "killed"}

\* start_workers: worker = worker_type(self.ws, self.ts, self.shutdown_event)
\* runs Worker.__init__ and with it init_db in the orchestrator's process,
\* before Process(target=worker.run).  When the client cannot be built,
\* init_db raises SystemExit there and run() is left by it.
Constructed ==
    IF "init_fails" \in faults THEN BOOLEAN ELSE {TRUE}

\* start_workers(WorkerFactory, ...): one pass of the loop over sid
OrchStartKV ==
    /\ orch.pc = "kv"
    /\ IF orch.sid < ws.workers
       THEN \E ok \in Constructed :
               IF ok
               THEN /\ kv' = [kv EXCEPT ![orch.sid].pc = "run"]
                    /\ orch' = [orch EXCEPT !.sid = @ + 1]
               ELSE /\ kv' = kv
                    /\ orch' = [orch EXCEPT !.pc = "aborted"]
       ELSE /\ kv' = kv
            /\ orch' = [pc |-> "view", sid |-> 0]
    /\ last' = NoLast
    /\ UNCHANGED <<ws, shared, nq, kv_created, tick_obs, reserved, probe,
                   vw, kv_deleted, shutdown_event, timer, sync, dumped,
                   faults>>

\* start_workers(ViewWorkerFactory, ...)
OrchStartView ==
    /\ orch.pc = "view"
    /\ IF orch.sid < ws.query_workers
       THEN \E ok \in Constructed :
               IF ok
               THEN /\ vw' = [vw EXCEPT ![orch.sid].pc = "run"]
                    /\ orch' = [orch EXCEPT !.sid = @ + 1]
               ELSE /\ vw' = vw
                    /\ orch' = [orch EXCEPT !.pc = "aborted"]
       ELSE /\ vw' = vw
            /\ orch' = [pc |-> "n1ql", sid |-> 0]
    /\ last' = NoLast
    /\ UNCHANGED <<ws, shared, kv, nq, kv_created, tick_obs, reserved, probe,
                   kv_deleted, shutdown_event, timer, sync, dumped, faults>>

\* start_workers(N1QLWorkerFactory, ...)
OrchStartN1QL ==
    /\ orch.pc = "n1ql"
    /\ IF orch.sid < ws.n1ql_workers
       THEN \E ok \in Constructed :
               IF ok
               THEN /\ nq' = [nq EXCEPT ![orch.sid].pc = "run"]
                    /\ orch' = [orch EXCEPT !.sid = @ + 1]
               ELSE /\ nq' = nq
                    /\ orch' = [orch EXCEPT !.pc = "aborted"]
       ELSE /\ nq' = nq
            /\ orch' = [pc |-> "timers", sid |-> 0]
    /\ last' = NoLast
    /\ UNCHANGED <<ws, shared, kv, kv_created, tick_obs, reserved, probe,
                   vw, kv_deleted, shutdown_event, timer, sync, dumped,
                   faults>>

\* start_timers: the abort timer is started only when ws.ops is infinite
OrchStartTimers ==
    /\ orch.pc = "timers"
    /\ timer' = IF timer # "none" /\ ws.ops = Inf THEN "started" ELSE timer
    /\ sync' = IF ws.working_set_move_time # 0 THEN "started" ELSE sync
    /\ orch' = [orch EXCEPT !.pc = "wait"]
    /\ last' = NoLast
    /\ UNCHANGED <<ws, shared, kv, nq, kv_created, tick_obs, reserved, probe,
                   vw, kv_deleted, shutdown_event, dumped, faults>>

\* a wait_for_completion that joins the processes of the KV pool only
KVJoined ==
    \A sid \in KVSids : kv[sid].pc \in Final

\* wait_for_completion: process.join() has returned for every process
AllJoined ==
    /\ \A sid \in KVSids : kv[sid].pc \in Final
    /\ \A sid \in VWSids : vw[sid].pc \in Final
    /\ \A sid \in NQSids : nq[sid].pc \in Final

OrchWaitForCompletion ==
    /\ orch.pc = "wait"
    /\ AllJoined
    /\ orch' = [orch EXCEPT !.pc = "stop_timers"]
    /\ last' = NoLast
    /\ UNCHANGED <<ws, shared, kv, nq, kv_created, tick_obs, reserved, probe,
                   vw, kv_deleted, shutdown_event, timer, sync, dumped,
                   faults>>

\* stop_timers: self.timer.cancel() and self.sync.stop_timer(); cancel()
\* does nothing to a timer that has fired
OrchStopTimers ==
    /\ orch.pc = "stop_timers"
    /\ timer' = IF timer \in {"idle", "started"} THEN "cancelled" ELSE timer
    /\ sync' = IF ws.working_set_move_time # 0 THEN "stopped" ELSE sync
    /\ orch' = [orch EXCEPT !.pc = "returned"]
    /\ last' = NoLast
    /\ UNCHANGED <<ws, shared, kv, nq, kv_created, tick_obs, reserved, probe,
                   vw, kv_deleted, shutdown_event, dumped, faults>>

\* Timer(timer, self.abort) expires: abort() sets the shutdown event
TimerExpires ==
    /\ timer = "started"
    /\ timer' = "fired"
    /\ shutdown_event' = "set"
    /\ last' = NoLast
    /\ UNCHANGED <<ws, shared, kv, nq, kv_created, tick_obs, reserved, probe,
                   vw, kv_deleted, sync, orch, dumped, faults>>

\* signal.signal(signal.SIGPWR, self.abort), installed by run() before
\* wait_for_completion: the signal of perfrunner arrives while run() waits
\* and abort(signum, frame) runs in the orchestrator's main thread.  With
\* shutdown_event None, self.shutdown_event.set() raises AttributeError,
\* which leaves run() from inside wait_for_completion.
OrchSignal ==
    /\ "sigpwr" \in faults
    /\ orch.pc = "wait"
    /\ faults' = faults \ {"sigpwr"}
    /\ IF shutdown_event = "none"
       THEN /\ orch' = [orch EXCEPT !.pc = "aborted"]
            /\ shutdown_event' = shutdown_event
       ELSE /\ orch' = orch
            /\ shutdown_event' = "set"
    /\ last' = NoLast
    /\ UNCHANGED <<ws, shared, kv, nq, kv_created, tick_obs, reserved, probe,
                   vw, kv_deleted, timer, sync, dumped>>

\* a worker process that is still running
Alive(w) ==
    w.pc \notin Final \cup {"unborn"}

\* worker_process.daemon = True: when the orchestrator's process ends
\* after the SystemExit, its daemonic children are terminated
ProcessExit ==
    /\ orch.pc = "aborted"
    /\ orch' = [orch EXCEPT !.pc = "exited"]
    /\ kv' = [sid \in KVSids |->
                IF Alive(kv[sid]) THEN [KVStart EXCEPT !.pc = "killed"]
                ELSE kv[sid]]
    /\ vw' = [sid \in VWSids |->
                IF Alive(vw[sid]) THEN [VWStart EXCEPT !.pc = "killed"]
                ELSE vw[sid]]
    /\ nq' = [sid \in NQSids |->
                IF Alive(nq[sid]) THEN [NQStart EXCEPT !.pc = "killed"]
                ELSE nq[sid]]
    /\ kv_lock' = FALSE
    /\ n1ql_lock' = FALSE
    /\ last' = NoLast
    /\ UNCHANGED <<ws, curr_items, deleted_items, curr_ops,
                   current_hot_load_start, timer_elapse, kv_created,
                   tick_obs, reserved, probe, kv_deleted, shutdown_event,
                   timer, sync, dumped, faults>>

(***************************************************************************)
(* The runs of the model.  Workloads holds one workload per existing-key   *)
(* generator that init_keys can select, with small item counts.            *)
(***************************************************************************)
CreateWorkload ==
    [DefaultSettings EXCEPT !.workers = 2, !.creates = 2,
                            !.n1ql_workers = 1, !.n1ql_op = "create"]

DeleteWorkload ==
    [DefaultSettings EXCEPT !.workers = 2, !.ops = 300, !.deletes = 1,
                            !.updates = 1, !.working_set = 50,
                            !.working_set_access = 50]

CASWorkload ==
    [DefaultSettings EXCEPT !.ops = 100, !.creates = 1,
                            !.n1ql_workers = 2, !.n1ql_op = "update"]

\* three N1QL update shards over a number of items they do not divide
CAS3Workload ==
    [DefaultSettings EXCEPT !.items = 5, !.ops = 100, !.creates = 1,
                            !.n1ql_workers = 3, !.n1ql_op = "update"]

MovingWorkload ==
    [DefaultSettings EXCEPT !.workers = 2, !.updates = 1, !.working_set = 50,
                            !.working_set_move_time = 1,
                            !.working_set_moving_docs = 1]

ZipfWorkload ==
    [DefaultSettings EXCEPT !.reads_and_updates = 2, !.zipf_alpha = 2,
                            !.n1ql_workers = 1, !.n1ql_op = "read"]

PowerWorkload ==
    [DefaultSettings EXCEPT !.reads = 1, !.power_alpha = 2]

\* two delete tokens in every batch of two workers
DeletePairsWorkload ==
    [DefaultSettings EXCEPT !.workers = 2, !.ops = 200, !.deletes = 2]

\* reads and read-and-update pairs over a moving working set
MovingReadsWorkload ==
    [DefaultSettings EXCEPT !.reads = 1, !.updates = 1,
                            !.reads_and_updates = 2, !.working_set = 50,
                            !.working_set_move_time = 1,
                            !.working_set_moving_docs = 1]

Workloads ==
    {CreateWorkload, DeleteWorkload, CASWorkload, CAS3Workload,
     MovingWorkload, ZipfWorkload, PowerWorkload, DeletePairsWorkload,
     MovingReadsWorkload}

\* scenario 2 of the specification: working_set = 10 %, items = 1000,
\* working_set_moving_docs = 50, no creates and no deletes
Scenario2 ==
    [DefaultSettings EXCEPT !.items = 1000, !.workers = 2, !.updates = 1,
                            !.working_set = 10,
                            !.working_set_move_time = 1,
                            !.working_set_moving_docs = 50]

Init ==
    /\ \E s \in Workloads : Start(s)
    /\ probe = NoProbe

Next ==
    \/ \E sid \in KVSids : KVRunCondition(sid)
    \/ \E sid \in KVSids : KVCountOps(sid)
    \/ \E sid \in KVSids : KVReserveItems(sid)
    \/ \E sid \in KVSids : KVItemsRead(sid)
    \/ \E sid \in KVSids : KVItemsWrite(sid)
    \/ \E sid \in KVSids : KVReserveDeleted(sid)
    \/ \E sid \in KVSids : KVCreateArgs(sid)
    \/ \E sid \in KVSids : KVReadArgs(sid)
    \/ \E sid \in KVSids : KVUpdateArgs(sid)
    \/ \E sid \in KVSids : KVDeleteArgs(sid)
    \/ \E sid \in KVSids : KVModifyArgs(sid)
    \/ \E sid \in KVSids : KVDoBatch(sid)
    \/ \E sid \in KVSids : KVDumpStats(sid)
    \/ \E sid \in KVSids : KVMovingTimerRead(sid)
    \/ \E sid \in KVSids : KVMovingTimerClear(sid)
    \/ \E sid \in KVSids : KVMovingStartRead(sid)
    \/ \E sid \in KVSids : KVMovingStartWrite(sid)
    \/ \E sid \in KVSids : KVMovingDraw(sid)
    \/ \E sid \in NQSids : NQRead(sid)
    \/ \E sid \in NQSids : NQReadKey(sid)
    \/ \E sid \in NQSids : NQCreate(sid)
    \/ \E sid \in NQSids : NQItemsRead(sid)
    \/ \E sid \in NQSids : NQItemsWrite(sid)
    \/ \E sid \in NQSids : NQCreateKey(sid)
    \/ \E sid \in NQSids : NQUpdate(sid)
    \/ \E sid \in NQSids : NQUpdateKey(sid)
    \/ \E sid \in NQSids : NQDoBatch(sid)
    \/ TimerTick

Spec ==
    Init /\ [][Next]_vars

InitScenario2 ==
    /\ Start(Scenario2)
    /\ probe = NoProbe

NextScenario2 ==
    \/ \E sid \in KVSids : KVRunCondition(sid)
    \/ \E sid \in KVSids : KVCountOps(sid)
    \/ \E sid \in KVSids : KVReserveItems(sid)
    \/ \E sid \in KVSids : KVReserveDeleted(sid)
    \/ \E sid \in KVSids : KVUpdateArgs(sid)
    \/ \E sid \in KVSids : KVDoBatch(sid)
    \/ \E sid \in KVSids : KVDumpStats(sid)
    \/ \E sid \in KVSids : KVMovingTimerRead(sid)
    \/ \E sid \in KVSids : KVMovingTimerClear(sid)
    \/ \E sid \in KVSids : KVMovingStartRead(sid)
    \/ \E sid \in KVSids : KVMovingStartWrite(sid)
    \/ \E sid \in KVSids : KVMovingDraw(sid)
    \/ TimerTick

SpecScenario2 ==
    InitScenario2 /\ [][NextScenario2]_vars

(***************************************************************************)
(* Whole runs of WorkloadGen.run, from the state that __init__ leaves:     *)
(* no worker constructed yet, the abort Timer and the shutdown Event       *)
(* there when a timer is configured.  A run is a workload, whether a timer *)
(* is configured, and what its environment may do: "init_fails" (a client  *)
(* may fail to be built), "op_raises" (an operation may raise), "sigint"   *)
(* (a KeyboardInterrupt may reach a KV worker).                            *)
(***************************************************************************)
Unborn(w) ==
    [w EXCEPT !.pc = "unborn"]

Construct(s, t, f) ==
    /\ ws = s
    /\ curr_items = s.items
    /\ deleted_items = 0
    /\ curr_ops = 0
    /\ kv_lock = FALSE
    /\ n1ql_lock = FALSE
    /\ current_hot_load_start =
         IF s.working_set_move_time # 0 THEN IntPct(s.items, s.working_set) ELSE 0
    /\ timer_elapse = 0
    /\ kv = [sid \in 0..(s.workers - 1) |-> Unborn(KVStart)]
    /\ nq = [sid \in 0..(s.n1ql_workers - 1) |-> Unborn(NQStart)]
    /\ last = NoLast
    /\ kv_created = EmptyBag
    /\ reserved = 0
    /\ tick_obs = <<>>
    /\ vw = [sid \in 0..(s.query_workers - 1) |-> Unborn(VWStart)]
    /\ kv_deleted = EmptyBag
    /\ shutdown_event = IF t THEN "clear" ELSE "none"
    /\ timer = IF t THEN "idle" ELSE "none"
    /\ sync = IF s.working_set_move_time # 0 THEN "idle" ELSE "none"
    /\ orch = [pc |-> "kv", sid |-> 0]
    /\ dumped = {}
    /\ faults = f

\* only the timer ends it: KV deletes and a view worker
TimedRun ==
    [s |-> [DefaultSettings EXCEPT !.ops = Inf, !.deletes = 1,
                                   !.query_workers = 1],
     t |-> TRUE, f |-> {}]

\* only the timer ends it: KV deletes and an N1QL read worker
TimedN1QLRun ==
    [s |-> [DefaultSettings EXCEPT !.ops = Inf, !.deletes = 1,
                                   !.n1ql_workers = 1],
     t |-> TRUE, f |-> {}]

\* a timer and a finite number of operations
FiniteTimedRun ==
    [s |-> [DefaultSettings EXCEPT !.ops = 100, !.updates = 1,
                                   !.n1ql_workers = 1],
     t |-> TRUE, f |-> {}]

\* a timer, a finite number of operations and KV workers only
FiniteKVRun ==
    [s |-> [DefaultSettings EXCEPT !.workers = 2, !.reads = 1],
     t |-> TRUE, f |-> {}]

InitFailsRun ==
    [s |-> [DefaultSettings EXCEPT !.workers = 2, !.ops = 100, !.reads = 1],
     t |-> FALSE, f |-> {"init_fails"}]

FaultyRun ==
    [s |-> [DefaultSettings EXCEPT !.updates = 1],
     t |-> FALSE, f |-> {"op_raises", "sigint"}]

AsyncRun ==
    [s |-> [DefaultSettings EXCEPT !.ops = 100, !.reads = BATCH_SIZE,
                                   !.async = TRUE],
     t |-> FALSE, f |-> {}]

MovingRun ==
    [s |-> [MovingWorkload EXCEPT !.workers = 1, !.ops = 100],
     t |-> FALSE, f |-> {}]

\* two KV workers that can both pass the test of the loop at curr_ops = 100
OvershootRun ==
    [s |-> [DefaultSettings EXCEPT !.workers = 2, !.ops = BATCH_SIZE + 1,
                                   !.reads = BATCH_SIZE],
     t |-> FALSE, f |-> {}]

Runs ==
    {TimedRun, TimedN1QLRun, FiniteTimedRun, FiniteKVRun, InitFailsRun,
     FaultyRun, AsyncRun, MovingRun, OvershootRun}

InitRun ==
    /\ \E r \in Runs : Construct(r.s, r.t, r.f)
    /\ probe = NoProbe

\* the steps of the program
NextProgram ==
    \/ OrchStartKV
    \/ OrchStartView
    \/ OrchStartN1QL
    \/ OrchStartTimers
    \/ OrchWaitForCompletion
    \/ OrchStopTimers
    \/ TimerExpires
    \/ \E sid \in KVSids : KVRunCondition(sid)
    \/ \E sid \in KVSids : KVCountOps(sid)
    \/ \E sid \in KVSids : KVReserveItems(sid)
    \/ \E sid \in KVSids : KVReserveDeleted(sid)
    \/ \E sid \in KVSids : KVReadArgs(sid)
    \/ \E sid \in KVSids : KVReadAll(sid)
    \/ \E sid \in KVSids : KVUpdateArgs(sid)
    \/ \E sid \in KVSids : KVDeleteArgs(sid)
    \/ \E sid \in KVSids : KVDoBatch(sid)
    \/ \E sid \in KVSids : KVDumpStats(sid)
    \/ \E sid \in KVSids : KVMovingTimerRead(sid)
    \/ \E sid \in KVSids : KVMovingTimerClear(sid)
    \/ \E sid \in KVSids : KVMovingStartRead(sid)
    \/ \E sid \in KVSids : KVMovingStartWrite(sid)
    \/ \E sid \in KVSids : KVMovingDraw(sid)
    \/ \E sid \in KVSids : AKVRun(sid)
    \/ \E sid \in KVSids, i \in Conns : AKVConnect(sid, i)
    \/ \E sid \in KVSids : AKVIssue(sid)
    \/ \E sid \in KVSids, i \in Conns : AKVRestart(sid, i)
    \/ \E sid \in KVSids : AKVReactorReturns(sid)
    \/ \E sid \in VWSids : VWItemsSpot(sid)
    \/ \E sid \in VWSids : VWDeletedSpot(sid)
    \/ \E sid \in VWSids : VWQuery(sid)
    \/ \E sid \in VWSids : VWDoBatch(sid)
    \/ \E sid \in VWSids : VWStop(sid)
    \/ \E sid \in VWSids : VWDumpStats(sid)
    \/ \E sid \in NQSids : NQRead(sid)
    \/ \E sid \in NQSids : NQReadKey(sid)
    \/ \E sid \in NQSids : NQDoBatch(sid)
    \/ \E sid \in NQSids : NQStop(sid)
    \/ \E sid \in NQSids : NQDumpStats(sid)

\* what the environment does to the program
NextFault ==
    \/ \E sid \in KVSids : KVOpRaises(sid)
    \/ \E sid \in KVSids : KVInterrupt(sid)
    \/ TimerTick
    \/ ProcessExit

NextRun ==
    NextProgram \/ NextFault

SpecRun ==
    InitRun /\ [][NextRun]_vars

\* every process that can take a step is scheduled in the end, and a
\* started Timer expires; nothing is assumed of the environment
SpecRunFair ==
    SpecRun /\ WF_vars(NextProgram)

(***************************************************************************)
(* Runs of the asynchronous worker: connections that fail to connect,      *)
(* operations that fail, a throughput ceiling and the abort timer.         *)
(***************************************************************************)
AsyncConnsRun ==
    [s |-> [DefaultSettings EXCEPT !.ops = 100, !.reads = BATCH_SIZE,
                                   !.async = TRUE,
                                   !.connections = MaxConnections],
     t |-> FALSE, f |-> {"conn_fails"}]

AsyncPacedRun ==
    [s |-> [DefaultSettings EXCEPT !.ops = Inf, !.reads = BATCH_SIZE,
                                   !.async = TRUE, !.throughput = 1000],
     t |-> TRUE, f |-> {"conn_fails", "op_fails"}]

InitAsync ==
    /\ \E r \in {AsyncConnsRun, AsyncPacedRun} : Construct(r.s, r.t, r.f)
    /\ probe = NoProbe

NextAsync ==
    \/ OrchStartKV
    \/ OrchStartView
    \/ OrchStartN1QL
    \/ OrchStartTimers
    \/ OrchWaitForCompletion
    \/ OrchStopTimers
    \/ TimerExpires
    \/ \E sid \in KVSids : KVCountOps(sid)
    \/ \E sid \in KVSids : KVReserveItems(sid)
    \/ \E sid \in KVSids : KVReserveDeleted(sid)
    \/ \E sid \in KVSids : KVReadAll(sid)
    \/ \E sid \in KVSids : AKVRun(sid)
    \/ \E sid \in KVSids, i \in Conns : AKVConnect(sid, i)
    \/ \E sid \in KVSids : AKVIssue(sid)
    \/ \E sid \in KVSids, i \in Conns : AKVRestart(sid, i)
    \/ \E sid \in KVSids : AKVPaced(sid)
    \/ \E sid \in KVSids, i \in Conns : AKVError(sid, i)
    \/ \E sid \in KVSids : AKVReconnect(sid)
    \/ \E sid \in KVSids : AKVReactorReturns(sid)

SpecAsync ==
    InitAsync /\ [][NextAsync]_vars

(***************************************************************************)
(* Runs that perfrunner ends with SIGPWR: "sigpwr" in the faults of a run  *)
(* is the one signal that it sends.  One of them has both query pools.     *)
(***************************************************************************)
\* WorkloadGen(ws, ts): no timer
SignalRun ==
    [s |-> [DefaultSettings EXCEPT !.ops = Inf, !.reads = BATCH_SIZE],
     t |-> FALSE, f |-> {"sigpwr"}]

\* WorkloadGen(ws, ts, timer)
SignalTimedRun ==
    [s |-> [DefaultSettings EXCEPT !.ops = Inf, !.reads = BATCH_SIZE,
                                   !.workers = 2],
     t |-> TRUE, f |-> {"sigpwr"}]

\* view workers and N1QL workers together, no KV worker
QueryPoolsRun ==
    [s |-> [DefaultSettings EXCEPT !.ops = Inf, !.workers = 0,
                                   !.query_workers = 1, !.n1ql_workers = 1],
     t |-> TRUE, f |-> {"sigpwr"}]

InitSignal ==
    /\ \E r \in {SignalRun, SignalTimedRun, QueryPoolsRun} :
          Construct(r.s, r.t, r.f)
    /\ probe = NoProbe

NextSignal ==
    \/ OrchStartKV
    \/ OrchStartView
    \/ OrchStartN1QL
    \/ OrchStartTimers
    \/ OrchWaitForCompletion
    \/ OrchStopTimers
    \/ TimerExpires
    \/ OrchSignal
    \/ ProcessExit
    \/ \E sid \in KVSids : KVRunCondition(sid)
    \/ \E sid \in KVSids : KVCountOps(sid)
    \/ \E sid \in KVSids : KVReserveItems(sid)
    \/ \E sid \in KVSids : KVReserveDeleted(sid)
    \/ \E sid \in KVSids : KVReadAll(sid)
    \/ \E sid \in KVSids : KVDoBatch(sid)
    \/ \E sid \in KVSids : KVDumpStats(sid)
    \/ \E sid \in VWSids : VWItemsSpot(sid)
    \/ \E sid \in VWSids : VWDeletedSpot(sid)
    \/ \E sid \in VWSids : VWQuery(sid)
    \/ \E sid \in VWSids : VWDoBatch(sid)
    \/ \E sid \in VWSids : VWStop(sid)
    \/ \E sid \in VWSids : VWDumpStats(sid)
    \/ \E sid \in NQSids : NQRead(sid)
    \/ \E sid \in NQSids : NQReadKey(sid)
    \/ \E sid \in NQSids : NQDoBatch(sid)
    \/ \E sid \in NQSids : NQStop(sid)
    \/ \E sid \in NQSids : NQDumpStats(sid)

SpecSignal ==
    InitSignal /\ [][NextSignal]_vars

(***************************************************************************)
(* Runs without creates and deletes.                                       *)
(***************************************************************************)

\* scenario 1 of the specification: items = 1000, reads = 100 and nothing
\* else, one worker, until curr_ops = 500
Scenario1 ==
    [DefaultSettings EXCEPT !.items = 1000, !.reads = BATCH_SIZE, !.ops = 500]

\* reads, updates and read-and-update pairs of two workers
ReadUpdateWorkload ==
    [DefaultSettings EXCEPT !.workers = 2, !.reads = 1, !.updates = 1,
                            !.reads_and_updates = 2]

\* ratios that sum to BATCH_SIZE with an odd reads_and_updates
OddModifyWorkload ==
    [DefaultSettings EXCEPT !.reads = BATCH_SIZE - 3, !.reads_and_updates = 3,
                            !.ops = 100]

InitScenario1 ==
    /\ \E s \in {Scenario1, ReadUpdateWorkload, OddModifyWorkload} :
          Construct(s, FALSE, {})
    /\ probe = NoProbe

NextScenario1 ==
    \/ OrchStartKV
    \/ OrchStartView
    \/ OrchStartN1QL
    \/ OrchStartTimers
    \/ OrchWaitForCompletion
    \/ OrchStopTimers
    \/ \E sid \in KVSids : KVRunCondition(sid)
    \/ \E sid \in KVSids : KVCountOps(sid)
    \/ \E sid \in KVSids : KVReserveItems(sid)
    \/ \E sid \in KVSids : KVReserveDeleted(sid)
    \/ \E sid \in KVSids : KVReadArgs(sid)
    \/ \E sid \in KVSids : KVReadAll(sid)
    \/ \E sid \in KVSids : KVUpdateArgs(sid)
    \/ \E sid \in KVSids : KVModifyArgs(sid)
    \/ \E sid \in KVSids : KVDoBatch(sid)
    \/ \E sid \in KVSids : KVDumpStats(sid)

SpecScenario1 ==
    InitScenario1 /\ [][NextScenario1]_vars

(***************************************************************************)
(* Direct calls of the generators: one next() call per step, with the      *)
(* counters and the settings drawn from small sets.                        *)
(***************************************************************************)
Counts == 0..MaxCount

WorkingSetSettings ==
    {[DefaultSettings EXCEPT !.items = i, !.working_set = w,
                             !.working_set_access = a] :
        i \in {4, MaxCount}, w \in {25, 50}, a \in {0, 50, 100}}

MovingSettings ==
    {[DefaultSettings EXCEPT !.working_set = w, !.working_set_move_time = 1,
                             !.working_set_moving_docs = m] :
        w \in {25, 50}, m \in {1, 2}}

\* the arguments of one call, before it is made; draw is the value that
\* np.random.zipf returned to the call, once it is made
Call(gen, s, c, d, sid, start, elapse) ==
    [gen |-> gen, s |-> s, curr_items |-> c, curr_deletes |-> d, sid |-> sid,
     start |-> start, timer |-> elapse, key |-> NoKey, draw |-> 0]

Calls ==
    {Call(gen, DefaultSettings, c, d, 0, 0, 0) :
        gen \in {"UniformKey", "ZipfKey", "PowerKey"}, c \in Counts, d \in Counts}
    \cup {Call("WorkingSetKey", s, c, d, 0, 0, 0) :
            s \in WorkingSetSettings, c \in Counts, d \in Counts}
    \cup {Call("MovingWorkingSetKey", s, c, d, 0, start, elapse) :
            s \in MovingSettings, c \in Counts, d \in Counts,
            start \in Counts, elapse \in {0, 1}}
    \cup {Call("KeyForCASUpdate", [DefaultSettings EXCEPT !.n1ql_workers = n],
               c, 0, sid, 0, 0) :
            n \in 1..MaxShards, c \in Counts, sid \in 0..(MaxShards - 1)}

Pending(gen) ==
    probe.gen = gen /\ probe.key = NoKey

ProbeUniformKey ==
    /\ Pending("UniformKey")
    /\ \E key \in UniformKeyNext(probe.curr_items, probe.curr_deletes) :
          probe' = [probe EXCEPT !.key = key]
    /\ UNCHANGED <<ws, shared, kv, nq, last, kv_created, reserved, tick_obs,
                   vw, kv_deleted, lifecycle>>

ProbeWorkingSetKey ==
    /\ Pending("WorkingSetKey")
    /\ \E key \in WorkingSetKeyNext(probe.s, probe.curr_items,
                                    probe.curr_deletes) :
          probe' = [probe EXCEPT !.key = key]
    /\ UNCHANGED <<ws, shared, kv, nq, last, kv_created, reserved, tick_obs,
                   vw, kv_deleted, lifecycle>>

ProbeMovingWorkingSetKey ==
    /\ Pending("MovingWorkingSetKey")
    /\ \E key \in MovingWorkingSetKeyNext(probe.s, probe.curr_items,
                                          probe.curr_deletes, probe.start,
                                          probe.timer) :
          probe' = [probe EXCEPT !.key = key]
    /\ UNCHANGED <<ws, shared, kv, nq, last, kv_created, reserved, tick_obs,
                   vw, kv_deleted, lifecycle>>

ProbeZipfKey ==
    /\ Pending("ZipfKey")
    /\ \E z \in 1..MaxZipf :
          probe' = [probe EXCEPT
                      !.key = Key(ZipfNumber(probe.curr_items,
                                             probe.curr_deletes, z), FALSE),
                      !.draw = z]
    /\ UNCHANGED <<ws, shared, kv, nq, last, kv_created, reserved, tick_obs,
                   vw, kv_deleted, lifecycle>>

ProbePowerKey ==
    /\ Pending("PowerKey")
    /\ \E key \in PowerKeyNext(probe.curr_items, probe.curr_deletes) :
          probe' = [probe EXCEPT !.key = key]
    /\ UNCHANGED <<ws, shared, kv, nq, last, kv_created, reserved, tick_obs,
                   vw, kv_deleted, lifecycle>>

\* a worker of a pool of n1ql_workers has a sid below n1ql_workers
ProbeKeyForCASUpdate ==
    /\ Pending("KeyForCASUpdate")
    /\ probe.sid < probe.s.n1ql_workers
    /\ \E key \in KeyForCASUpdateNext(probe.s.n1ql_workers, probe.sid,
                                      probe.curr_items) :
          probe' = [probe EXCEPT !.key = key]
    /\ UNCHANGED <<ws, shared, kv, nq, last, kv_created, reserved, tick_obs,
                   vw, kv_deleted, lifecycle>>

InitGen ==
    /\ Start([DefaultSettings EXCEPT !.workers = 0])
    /\ probe \in Calls

NextGen ==
    \/ ProbeUniformKey
    \/ ProbeWorkingSetKey
    \/ ProbeMovingWorkingSetKey
    \/ ProbeZipfKey
    \/ ProbePowerKey
    \/ ProbeKeyForCASUpdate

SpecGen ==
    InitGen /\ [][NextGen]_vars

(***************************************************************************)
(* Key strings.  A string is the sequence of its characters and a Python   *)
(* int is its sign and its decimal digits without leading zeros, so that   *)
(* numbers of any size are formatted digit by digit.                       *)
(***************************************************************************)
MaxFmtDigits == 13

KEY_WIDTH == 12

DigitChars == <<"0", "1", "2", "3", "4", "5", "6", "7", "8", "9">>

DigitChar(d) == DigitChars[d + 1]

IsDigitChar(c) == \E d \in 0..9 : c = DigitChar(d)

DigitValue(c) == CHOOSE d \in 0..9 : c = DigitChar(d)

PyInt(neg, digits) ==
    [neg |-> neg, digits |-> digits]

Repeat(c, n) == [i \in 1..n |-> c]

\* '%d' % key: the sign and the digits, no padding
PercentDUnpadded(n) ==
    (IF n.neg THEN <<"-">> ELSE <<>>) \o [i \in 1..Len(n.digits) |-> DigitChar(n.digits[i])]

\* '%012d' % key: the sign, then zeros up to the width, then the digits; a
\* number wider than the field is written out in full.
PercentD(n) ==
    LET sign == IF n.neg THEN <<"-">> ELSE <<>>
        body == [i \in 1..Len(n.digits) |-> DigitChar(n.digits[i])]
        used == Len(sign) + Len(body)
        pad  == IF used < KEY_WIDTH THEN KEY_WIDTH - used ELSE 0
    IN  sign \o Repeat("0", pad) \o body

decimal_fmtr(key, prefix) ==
    LET str == PercentD(key)
    IN  IF prefix # <<>> THEN prefix \o <<"-">> \o str ELSE str

\* int(str) of a string of an optional sign and decimal digits; any other
\* string raises ValueError.
NotAnInt == [neg |-> FALSE, digits |-> <<>>]

RECURSIVE StripZeros(_)
StripZeros(ds) ==
    IF Len(ds) > 1 /\ ds[1] = 0 THEN StripZeros(Tail(ds)) ELSE ds

ParseInt(str) ==
    LET signed == str # <<>> /\ str[1] \in {"-", "+"}
        body   == IF signed THEN Tail(str) ELSE str
    IN  IF body = <<>> \/ \E i \in 1..Len(body) : ~IsDigitChar(body[i])
        THEN NotAnInt
        ELSE LET ds == StripZeros([i \in 1..Len(body) |-> DigitValue(body[i])])
             IN  PyInt(signed /\ str[1] = "-" /\ ds # <<0>>, ds)

\* the numbers formatted: 0, 7, 42, and for every length the least and the
\* greatest number of that many digits, with either sign
FmtDigits ==
    {<<0>>, <<7>>, <<4, 2>>}
    \cup {[i \in 1..k |-> 9] : k \in 1..MaxFmtDigits}
    \cup {[i \in 1..k |-> IF i = 1 THEN 1 ELSE 0] : k \in 1..MaxFmtDigits}

FmtNumbers ==
    {PyInt(neg, ds) : neg \in BOOLEAN, ds \in FmtDigits} \ {PyInt(TRUE, <<0>>)}

FmtPrefixes ==
    {<<>>, <<"n", "1", "q", "l">>, <<"a", "-", "b">>}

NoString == <<"?">>

FmtCalls ==
    {[gen |-> "decimal_fmtr", number |-> n, prefix |-> p, string |-> NoString] :
        n \in FmtNumbers, p \in FmtPrefixes}

ProbeDecimalFmtr ==
    /\ probe.gen = "decimal_fmtr"
    /\ probe.string = NoString
    /\ probe' = [probe EXCEPT !.string = decimal_fmtr(probe.number, probe.prefix)]
    /\ UNCHANGED <<ws, shared, kv, nq, last, kv_created, reserved, tick_obs,
                   vw, kv_deleted, lifecycle>>

(***************************************************************************)
(* Documents.  hex_digest is a fixed hash of its argument: a digest is     *)
(* kept as the string it was taken of, and a slice of the alphabet as the  *)
(* alphabet with its two indices.  random.randint(a, b) returns any        *)
(* integer of [a, b], whatever the state of the generator.                 *)
(***************************************************************************)
MaxDocKey == 5

N1QLPrefix == <<"n", "1", "q", "l">>

RECURSIVE DecimalDigits(_)
DecimalDigits(n) ==
    IF n < 10 THEN <<n>> ELSE Append(DecimalDigits(n \div 10), n % 10)

\* the Python int of a number of the model
ToPyInt(n) ==
    IF n < 0 THEN PyInt(TRUE, DecimalDigits(0 - n)) ELSE PyInt(FALSE, DecimalDigits(n))

KeyString(number, prefix) ==
    decimal_fmtr(ToPyInt(number), prefix)

Reversed(str) == [i \in 1..Len(str) |-> str[Len(str) + 1 - i]]

build_alphabet(str) ==
    [hex_digest |-> str, hex_digest_reversed |-> Reversed(str)]

\* (times * alphabet)[from:to]
Slice(alphabet, times, from, to) ==
    [alphabet |-> alphabet, times |-> times, from |-> from, to |-> to]

\* math.ceil(length / 64)
CeilDiv64(length) == (length + 63) \div 64

build_string(alphabet, length) ==
    Slice(alphabet, CeilDiv64(length), 0, length)

StringNext(self, number) ==
    build_string(build_alphabet(KeyString(number, self.prefix)), self.avg_size)

IsRandomInverted(prefix) == prefix = N1QLPrefix

is_random(prefix) == prefix # N1QLPrefix

\* offset is the value that random.randint(1, 9) returns when it is called
build_capped(self, alphabet, seq_id, num_unique, offset) ==
    IF is_random(self.prefix)
    THEN Slice(alphabet, 1, offset, offset + 6)
    ELSE <<self.prefix, "_", num_unique, "_", seq_id \div num_unique>>

build_owner(self, seq_id) ==
    decimal_fmtr(ToPyInt(seq_id % (self.num_docs \div 4)), self.prefix)

build_categories(self, seq_id) ==
    [i \in 1..4 |->
        decimal_fmtr(ToPyInt((seq_id + <<11, 19, 23, 29>>[i]) % self.num_categories),
                     self.prefix)]

build_replies(self, seq_id) ==
    [i \in 1..self.num_replies |->
        [user |-> decimal_fmtr(ToPyInt((seq_id + (i - 1) + 537) % self.num_docs),
                               self.prefix)]]

JoinedDocumentNext(self, number, offsets) ==
    LET alphabet == build_alphabet(KeyString(number, self.prefix))
    IN  [owner      |-> build_owner(self, number),
         moderator  |-> build_owner(self, number + 1),
         title      |-> Slice(alphabet, 1, 0, 32),
         capped     |-> build_capped(self, alphabet, number, 100, offsets[1]),
         sub_capped |-> build_capped(self, alphabet,
                                     number % (self.num_docs \div 4), 100,
                                     offsets[2]),
         categories |-> build_categories(self, number),
         replies    |-> build_replies(self, number)]

RefDocumentNext(self, number) ==
    [name |-> decimal_fmtr(ToPyInt(number), self.prefix)]

\* next(key) of the synthesizer self; offsets are the values that the calls
\* of random.randint(1, 9) return during this call
DocNext(self, number, offsets) ==
    CASE self.class = "String"         -> StringNext(self, number)
      [] self.class = "RefDocument"    -> RefDocumentNext(self, number)
      [] self.class = "JoinedDocument" -> JoinedDocumentNext(self, number, offsets)

Synthesizers ==
    {[class |-> c, prefix |-> p, avg_size |-> a, num_docs |-> 8,
      num_categories |-> 3, num_replies |-> 2] :
        c \in {"String", "RefDocument", "JoinedDocument"},
        p \in {N1QLPrefix, <<"k", "v">>}, a \in {0, 100}}

\* one synthesizer instance and one key: the documents of the calls made
DocCalls ==
    {[gen |-> "document", self |-> s, key |-> n, docs |-> <<>>] :
        s \in Synthesizers, n \in 0..MaxDocKey}

ProbeDocNext ==
    /\ probe.gen = "document"
    /\ Len(probe.docs) < 2
    /\ \E offsets \in (1..9) \X (1..9) :
          probe' = [probe EXCEPT
                      !.docs = Append(@, DocNext(probe.self, probe.key, offsets))]
    /\ UNCHANGED <<ws, shared, kv, nq, last, kv_created, reserved, tick_obs,
                   vw, kv_deleted, lifecycle>>

InitFmt ==
    /\ Start([DefaultSettings EXCEPT !.workers = 0])
    /\ probe \in FmtCalls \cup DocCalls

NextFmt ==
    \/ ProbeDecimalFmtr
    \/ ProbeDocNext

SpecFmt ==
    InitFmt /\ [][NextFmt]_vars

(***************************************************************************)
(* Rate control of a batch (with_sleep).  Wall-clock times are whole       *)
(* milliseconds, the argument of time.sleep is in microseconds, and        *)
(* CORRECTION_FACTOR is in thousandths, so that CORRECTION_FACTOR * delta  *)
(* is exact.  The throughputs drawn divide BATCH_SIZE * workers * 1000.    *)
(***************************************************************************)
MaxPaceWorkers == 2
\* the longest batch, in milliseconds
MaxActualTime == 8

CORRECTION_FACTOR == 975

\* self.target_time is None
NoTargetTime == -1

\* KVWorker.run: the target duration of one batch, in milliseconds
TargetTime(s) ==
    IF s.throughput < Inf
    THEN (BATCH_SIZE * s.workers * 1000) \div s.throughput
    ELSE NoTargetTime

\* the calls of time.sleep that one decorated call makes after a batch that
\* took actual_time, also when the remaining time is zero
WithSleepNonNegative(target_time, actual_time) ==
    IF target_time = NoTargetTime
    THEN <<>>
    ELSE IF target_time - actual_time >= 0
         THEN <<CORRECTION_FACTOR * (target_time - actual_time)>>
         ELSE <<>>

\* the calls of time.sleep that one decorated call makes after a batch that
\* took actual_time
with_sleep(target_time, actual_time) ==
    IF target_time = NoTargetTime
    THEN <<>>
    ELSE LET delta == target_time - actual_time
         IN  IF delta > 0 THEN <<CORRECTION_FACTOR * delta>> ELSE <<>>

PaceThroughputs == {Inf, 100000, 50000, 25000}

PaceCalls ==
    {[gen |-> "with_sleep",
      s |-> [DefaultSettings EXCEPT !.throughput = t, !.workers = w],
      actual_time |-> a, returned |-> FALSE, sleeps |-> <<>>] :
        t \in PaceThroughputs, w \in 1..MaxPaceWorkers, a \in 0..MaxActualTime}

ProbeWithSleep ==
    /\ probe.gen = "with_sleep"
    /\ ~probe.returned
    /\ probe' = [probe EXCEPT
                   !.returned = TRUE,
                   !.sleeps = with_sleep(TargetTime(probe.s), probe.actual_time)]
    /\ UNCHANGED <<ws, shared, kv, nq, last, kv_created, reserved, tick_obs,
                   vw, kv_deleted, lifecycle>>

InitPace ==
    /\ Start([DefaultSettings EXCEPT !.workers = 0])
    /\ probe \in PaceCalls

NextPace ==
    ProbeWithSleep

SpecPace ==
    InitPace /\ [][NextPace]_vars

(***************************************************************************)
(* Sequential scans (SequentialKey).  One SequentialKey object per worker  *)
(* of the pool; an iteration of it is a generator over                     *)
(* range(sid, items, workers), kept as the seq_id it yields next.          *)
(***************************************************************************)
MaxSeqItems == 5
MaxSeqWorkers == 3
\* the iterations made of one object
MaxIterations == 2

NoIter == [seq_id |-> 0, running |-> FALSE]

\* SequentialKey.__iter__: a new generator, at the start of the range
SequentialKeyIter(self) ==
    [seq_id |-> self.sid, running |-> TRUE]

\* the generator yields the key of ws.items as well
SequentialKeyHasNextInclusive(self, it) ==
    it.seq_id <= self.items

\* range(self.sid, self.ws.items, self.ws.workers) is not exhausted
SequentialKeyHasNext(self, it) ==
    it.seq_id < self.items

\* one step of the generator: the key it yields and the generator after it
SequentialKeyYield(self, it) ==
    [key |-> Key(it.seq_id, FALSE),
     it  |-> [it EXCEPT !.seq_id = @ + self.workers]]

SeqCalls ==
    {[gen |-> "SequentialKey", items |-> n, workers |-> w,
      it |-> [sid \in 0..(w - 1) |-> NoIter],
      scans |-> [sid \in 0..(w - 1) |-> <<>>]] :
        n \in 0..MaxSeqItems, w \in 1..MaxSeqWorkers}

SeqSelf(sid) ==
    [sid |-> sid, items |-> probe.items, workers |-> probe.workers]

\* for key in SequentialKey(...): the loop starts, with an empty scan
ProbeSeqIter(sid) ==
    /\ probe.gen = "SequentialKey"
    /\ sid \in DOMAIN probe.it
    /\ ~probe.it[sid].running
    /\ Len(probe.scans[sid]) < MaxIterations
    /\ probe' = [probe EXCEPT
                   !.it[sid] = SequentialKeyIter(SeqSelf(sid)),
                   !.scans[sid] = Append(@, <<>>)]
    /\ UNCHANGED <<ws, shared, kv, nq, last, kv_created, reserved, tick_obs,
                   vw, kv_deleted, lifecycle>>

\* the loop asks for the next key: one more key, or the end of the loop
ProbeSeqNext(sid) ==
    /\ probe.gen = "SequentialKey"
    /\ sid \in DOMAIN probe.it
    /\ probe.it[sid].running
    /\ LET self == SeqSelf(sid)
           it   == probe.it[sid]
           n    == Len(probe.scans[sid])
       IN  IF SequentialKeyHasNext(self, it)
           THEN LET y == SequentialKeyYield(self, it)
                IN  probe' = [probe EXCEPT
                                !.it[sid] = y.it,
                                !.scans[sid][n] = Append(@, y.key)]
           ELSE probe' = [probe EXCEPT !.it[sid] = NoIter]
    /\ UNCHANGED <<ws, shared, kv, nq, last, kv_created, reserved, tick_obs,
                   vw, kv_deleted, lifecycle>>

InitSeq ==
    /\ Start([DefaultSettings EXCEPT !.workers = 0])
    /\ probe \in SeqCalls

NextSeq ==
    \/ \E sid \in 0..(MaxSeqWorkers - 1) : ProbeSeqIter(sid)
    \/ \E sid \in 0..(MaxSeqWorkers - 1) : ProbeSeqNext(sid)

SpecSeq ==
    InitSeq /\ [][NextSeq]_vars

(***************************************************************************)
(* ArrayIndexingDocument: the two integer arrays of a document.  The other *)
(* fields are built from the alphabet of the key and do not enter the      *)
(* arrays.  r is the value that random.randint returns.                    *)
(***************************************************************************)
MaxArraySize == 2
MaxArrKey == 2
\* the keys drawn reach MaxArrCaps * ARRAY_CAP / 2
MaxArrCaps == 4

ARRAY_CAP == 100
ARRAY_SIZE == 10

\* [int(offset + i) for i in range(size)]
ArrayFrom(offset, size) ==
    [i \in 1..size |-> offset + i - 1]

build_achievements1(self, seq_id, r) ==
    LET offset == IF is_random(self.prefix)
                  THEN self.num_docs * self.array_size
                       + 2 * seq_id * self.array_size + r
                  ELSE seq_id * self.array_size
    IN  ArrayFrom(offset, self.array_size)

\* random mode starts from the offset of the static mode
BuildAchievements2Unshifted(self, seq_id, r) ==
    LET offset == IF is_random(self.prefix)
                  THEN (seq_id \div ARRAY_CAP) * ARRAY_SIZE
                       + ((2 * seq_id) \div ARRAY_CAP) * ARRAY_SIZE + r
                  ELSE (seq_id \div ARRAY_CAP) * ARRAY_SIZE
    IN  ArrayFrom(offset, ARRAY_SIZE)

build_achievements2(self, seq_id, r) ==
    LET offset == IF is_random(self.prefix)
                  THEN self.num_docs * ARRAY_SIZE
                       + ((2 * seq_id) \div ARRAY_CAP) * ARRAY_SIZE + r
                  ELSE (seq_id \div ARRAY_CAP) * ARRAY_SIZE
    IN  ArrayFrom(offset, ARRAY_SIZE)

\* ArrayIndexingDocument.next: the two arrays of the document of key number
ArrayIndexingDocumentNext(self, number, r1, r2) ==
    [achievements1 |-> build_achievements1(self, number + 1, r1),
     achievements2 |-> build_achievements2(self, number + 1, r2)]

NoArrays == [achievements1 |-> <<>>, achievements2 |-> <<>>]

ArrKeys ==
    (0..MaxArrKey)
    \cup {c * (ARRAY_CAP \div 2) + d : c \in 1..MaxArrCaps, d \in {-1, 0}}

\* a static population of num_docs documents with one of its keys, and one
\* key of a run in random mode over the same bucket
ArrCalls ==
    {[gen |-> "ArrayIndexingDocument", num_docs |-> n, array_size |-> a,
      static_key |-> k, random_key |-> q,
      static |-> NoArrays, random |-> NoArrays] :
        n \in {k + 1 : k \in ArrKeys}, a \in 1..MaxArraySize,
        k \in ArrKeys, q \in ArrKeys}

ArrSelf(prefix) ==
    [prefix |-> prefix, array_size |-> probe.array_size,
     num_docs |-> probe.num_docs]

\* next(key) of the synthesizer of a non-random run (prefix 'n1ql')
ProbeArrStatic ==
    /\ probe.gen = "ArrayIndexingDocument"
    /\ probe.static = NoArrays
    /\ probe' = [probe EXCEPT
                   !.static = ArrayIndexingDocumentNext(
                                  ArrSelf(N1QLPrefix), probe.static_key, 0, 0)]
    /\ UNCHANGED <<ws, shared, kv, nq, last, kv_created, reserved, tick_obs,
                   vw, kv_deleted, lifecycle>>

\* next(key) of the synthesizer of a random run (any other prefix)
ProbeArrRandom ==
    /\ probe.gen = "ArrayIndexingDocument"
    /\ probe.random = NoArrays
    /\ \E r1 \in 1..probe.array_size, r2 \in 1..ARRAY_SIZE :
          probe' = [probe EXCEPT
                      !.random = ArrayIndexingDocumentNext(
                                     ArrSelf(<<"k", "v">>), probe.random_key,
                                     r1, r2)]
    /\ UNCHANGED <<ws, shared, kv, nq, last, kv_created, reserved, tick_obs,
                   vw, kv_deleted, lifecycle>>

InitArr ==
    /\ Start([DefaultSettings EXCEPT !.workers = 0])
    /\ probe \in {c \in ArrCalls : c.static_key < c.num_docs}

NextArr ==
    \/ ProbeArrStatic
    \/ ProbeArrRandom

SpecArr ==
    InitArr /\ [][NextArr]_vars

(***************************************************************************)
(* Claims.                                                                 *)
(***************************************************************************)

\* C1: every key number that a KV worker resolves for a read, update or
\* modify token lies in [deleted_items, curr_items) of the shared counters
\* when it is resolved.
C1_ResolvedKeyInLiveRange ==
    (last.pool = "kv" /\ last.op \in {"r", "u", "m"} /\ last.key.err = "none")
        => (deleted_items <= last.key.number /\ last.key.number < curr_items)

\* C2: the i-th create token of a KV batch gets base + i, base being the
\* value of curr_items the batch read when it reserved, and no two create
\* tokens of KV workers ever get the same key number.
C2_CreateKeysDistinct ==
    /\ (last.pool = "kv" /\ last.op = "c")
          => last.key.number =
                kv[last.sid].base + (ws.creates - kv[last.sid].ops.c - 1)
    /\ \A k \in BagToSet(kv_created) : CopiesIn(k, kv_created) = 1

\* the workers that are between the read and the write of a reservation
\* of curr_items
Reserving ==
    {<<"kv", sid>> : sid \in {w \in KVSids :
                                kv[w].pc \in {"items_read", "items_write"}}}
    \cup {<<"n1ql", sid>> : sid \in {w \in NQSids :
                                nq[w].pc \in {"items_read", "items_write"}}}

\* C3: the reservations of curr_items of all pools exclude each other (at
\* most one worker is inside one at any time) and none is lost: curr_items
\* is its initial value plus the increments of the finished reservations.
C3_OneMutex ==
    /\ Cardinality(Reserving) <= 1
    /\ curr_items = ws.items + reserved

\* C4: curr_items and deleted_items never decrease.
C4_CountersMonotonic ==
    [][curr_items' >= curr_items /\ deleted_items' >= deleted_items]_vars

\* C5: with curr_items > curr_deletes, the uniform, Zipf and power
\* generators return a key number k with curr_deletes <= k < curr_items,
\* whatever the draw.
C5_InLiveRange ==
    (/\ probe.gen \in {"UniformKey", "ZipfKey", "PowerKey"}
     /\ probe.key # NoKey
     /\ probe.curr_items > probe.curr_deletes)
        => /\ probe.key.err = "none"
           /\ probe.curr_deletes <= probe.key.number
           /\ probe.key.number < probe.curr_items

\* the power generator returned the last live key of a range of several
C5_Witness ==
    /\ probe.gen = "PowerKey"
    /\ probe.curr_items > probe.curr_deletes + 1
    /\ probe.key.err = "none"
    /\ probe.key.number = probe.curr_items - 1

\* the hot range and the cold range of the probed call both hold a key
BothRanges ==
    /\ NumHotItems(probe.s) > 0
    /\ probe.curr_deletes < probe.curr_items - NumHotItems(probe.s)

\* C6: with working_set_access = 100 every key of the working-set generator
\* is a hit in [curr_items - hot, curr_items); with working_set_access = 0
\* every key is a miss in [curr_deletes, curr_items - hot), whatever the
\* draws.
C6_WorkingSetAccess ==
    (probe.gen = "WorkingSetKey" /\ probe.key.err = "none" /\ BothRanges)
        => /\ probe.s.working_set_access = 100
                 => /\ probe.key.hit
                    /\ probe.curr_items - NumHotItems(probe.s) <= probe.key.number
                    /\ probe.key.number < probe.curr_items
           /\ probe.s.working_set_access = 0
                 => /\ ~probe.key.hit
                    /\ probe.curr_deletes <= probe.key.number
                    /\ probe.key.number < probe.curr_items - NumHotItems(probe.s)

\* C7: called with curr_items = curr_deletes, each of the five key
\* distributions returns a key and does not raise.
C7_EmptyRangeTolerated ==
    (/\ probe.gen \in {"UniformKey", "WorkingSetKey", "MovingWorkingSetKey",
                       "ZipfKey", "PowerKey"}
     /\ probe.key # NoKey
     /\ probe.curr_items = probe.curr_deletes)
        => probe.key.err = "none"

\* the key that N1QL update worker sid holds, drawn for the curr_items it read
CASKeyOf(sid) ==
    ws.n1ql_op = "update" /\ nq[sid].key.err = "none"

\* C8: for n1ql_workers = W and curr_items = I the key of shard s lies in
\* [s * (I div W), (s + 1) * (I div W)) and in [0, I), and two update
\* workers that read the same curr_items never hold the same key.
C8_DisjointShards ==
    /\ \A sid \in NQSids :
          CASKeyOf(sid) =>
             LET per == nq[sid].curr_items \div ws.n1ql_workers
                 k == nq[sid].key.number
             IN  /\ sid * per <= k
                 /\ k < (sid + 1) * per
                 /\ 0 <= k
                 /\ k < nq[sid].curr_items
    /\ \A a \in NQSids, b \in NQSids :
          (/\ a # b
           /\ CASKeyOf(a)
           /\ CASKeyOf(b)
           /\ nq[a].curr_items = nq[b].curr_items)
             => nq[a].key.number # nq[b].key.number

\* two update workers hold keys drawn for the same curr_items, one that
\* the number of workers does not divide
C8_Witness ==
    \E a \in NQSids, b \in NQSids :
       /\ a # b
       /\ CASKeyOf(a)
       /\ CASKeyOf(b)
       /\ nq[a].curr_items = nq[b].curr_items
       /\ nq[a].curr_items % ws.n1ql_workers # 0

\* C9: the hot-window start is advanced by working_set_moving_docs at most
\* once per firing of the timer: after n firings it is its initial value
\* advanced k times for some k <= n.
C9_AdvanceOncePerTick ==
    current_hot_load_start \in
       {PyMod(IntPct(ws.items, ws.working_set) + k * ws.working_set_moving_docs,
              MovingNumItems(ws, ws.items, 0)) : k \in 0..Len(tick_obs)}

\* no next() call is between its test of the timer flag and its store of
\* the new start
NoAdvanceUnderWay ==
    \A sid \in KVSids :
       kv[sid].pc \notin {"timer_clear", "start_read", "start_write"}

\* C10: in scenario 2 (working_set = 10 %, items = 1000,
\* working_set_moving_docs = 50, no creates, no deletes), after exactly 3
\* timer ticks, each observed by one update, the start of the hot window is
\* its initial value 100 advanced by 150, modulo 900.
C10_Scenario2Offset ==
    (/\ Len(tick_obs) = 3
     /\ \A i \in 1..3 : tick_obs[i] = 1
     /\ NoAdvanceUnderWay)
        => current_hot_load_start = (100 + 150) % 900

\* no KV worker is between the reservation of its deletes and the last
\* delete token of the batch, and none ended in between
NoDeleteUnderWay ==
    \A sid \in KVSids :
       /\ kv[sid].pc \notin {"crashed", "killed"}
       /\ kv[sid].pc # "cmds" \/ kv[sid].ops.d = 0

\* C11: the delete operations of the KV pool target the key numbers 0, 1,
\* 2, ... with none skipped and none twice: a deleted key is below
\* deleted_items, and when no batch has deletes outstanding the deleted
\* keys are exactly [0, deleted_items).
C11_DeletesLowestFirst ==
    /\ \A k \in BagToSet(kv_deleted) :
          k < deleted_items /\ CopiesIn(k, kv_deleted) = 1
    /\ NoDeleteUnderWay => BagToSet(kv_deleted) = 0..(deleted_items - 1)

\* a synchronous KV worker is inside the loop of run()
KVLooping ==
    ~ws.async /\ \E sid \in KVSids : kv[sid].pc \in KVInLoop

\* C12: a KV worker at the top of its loop starts a batch only when
\* curr_ops < ops and the shutdown flag is not set, and when that is false
\* its next step leaves the loop for dump_stats; with a finite ops every
\* KV worker that entered the loop leaves it (a batch that raises ends
\* the worker, and the loop with it).
C12_KVLoopTerminates ==
    /\ [][\A sid \in KVSids :
             (kv[sid].pc = "run" /\ ~ws.async /\ kv'[sid].pc # "run")
                => IF curr_ops < ws.ops /\ shutdown_event # "set"
                   THEN kv'[sid].pc \in {"ops", "dump", "killed"}
                   ELSE kv'[sid].pc \in {"dump", "killed"}]_vars
    /\ (ws.ops # Inf /\ KVLooping) ~> ~KVLooping

\* a KV worker left the loop at the batch boundary where curr_ops reached
\* the finite ops, no shutdown flag set
C12_Witness ==
    /\ ws.ops # Inf
    /\ ~ws.async
    /\ curr_ops = ws.ops
    /\ shutdown_event # "set"
    /\ \E sid \in KVSids : kv[sid].pc = "dump"

\* worker w, at position pc, takes a step that starts no batch, ends none
\* early and returns only from dump_stats, which wrote the file name-sid
StopsAtBoundary(w, wnext, name, sid) ==
    /\ (w.pc = "run" /\ wnext.pc # "run") => wnext.pc = "dump"
    /\ (w.pc \notin {"run", "dump", "returned"})
          => wnext.pc \notin {"dump", "returned"}
    /\ (w.pc # "returned" /\ wnext.pc = "returned")
          => (w.pc = "dump" /\ <<name, sid>> \in dumped')

\* every synchronous worker of the three pools has returned from run(),
\* or was ended inside a batch by an exception of a key generator
AllReturned ==
    /\ \A sid \in KVSids : kv[sid].pc \in {"returned", "crashed"}
    /\ \A sid \in VWSids : vw[sid].pc \in {"returned", "crashed"}
    /\ \A sid \in NQSids : nq[sid].pc \in {"returned", "crashed"}

\* C13: once the shutdown flag is set, a KV, view or N1QL worker that is
\* inside a batch goes on to the end of that batch, a worker at the top of
\* its loop starts no batch and goes to dump_stats, a worker returns only
\* after dump_stats wrote its file, and every worker whose batch raises no
\* exception does return.
C13_ShutdownAtBatchBoundary ==
    /\ [][(shutdown_event = "set" /\ ~ws.async)
            => /\ \A sid \in KVSids :
                     StopsAtBoundary(kv[sid], kv'[sid], "kv-worker", sid)
               /\ \A sid \in VWSids :
                     StopsAtBoundary(vw[sid], vw'[sid], "query-worker", sid)
               /\ \A sid \in NQSids :
                     StopsAtBoundary(nq[sid], nq'[sid], "query-worker", sid)]_vars
    /\ (shutdown_event = "set" /\ ~ws.async) ~> AllReturned

\* the flag is set, a view worker has stopped and dumped, and a KV worker
\* is still inside the batch it had started
C13_Witness ==
    /\ shutdown_event = "set"
    /\ \E sid \in KVSids : kv[sid].pc = "cmds"
    /\ \E sid \in VWSids :
          vw[sid].pc = "returned" /\ <<"query-worker", sid>> \in dumped

\* C14: in a run where client operations may raise, no KV worker is ended
\* by it: every started KV worker is in its loop, in dump_stats, or has
\* returned with its latency file written.
C14_OpErrorDoesNotAbort ==
    "op_raises" \in faults
       => \A sid \in KVSids :
             /\ kv[sid].pc \in KVInLoop \cup {"unborn", "dump", "returned"}
             /\ kv[sid].pc = "returned" => <<"kv-worker", sid>> \in dumped

\* C15: in a run where the construction of a client may fail, the failure
\* ends neither WorkloadGen.run nor a worker that was started.
C15_InitFailureIsLocal ==
    "init_fails" \in faults
       => /\ orch.pc \notin {"aborted", "exited"}
          /\ \A sid \in KVSids : kv[sid].pc # "killed"

\* the NAME of the class that WorkerFactory selects for the KV pool
KVName ==
    IF ws.async THEN "async-kv-worker" ELSE "kv-worker"

\* C16: a worker of any type whose run() has returned, whatever ended its
\* loop, has written its latency file NAME-sid with dump_stats.
C16_EveryWorkerDumps ==
    /\ \A sid \in KVSids :
          kv[sid].pc = "returned" => <<KVName, sid>> \in dumped
    /\ \A sid \in VWSids :
          vw[sid].pc = "returned" => <<"query-worker", sid>> \in dumped
    /\ \A sid \in NQSids :
          nq[sid].pc = "returned" => <<"query-worker", sid>> \in dumped

\* the positions of the workers of the three pools
WorkerPositions ==
    {kv[sid].pc : sid \in KVSids} \cup {vw[sid].pc : sid \in VWSids}
       \cup {nq[sid].pc : sid \in NQSids}

\* C17: a timer (the abort timer or the hot-window timer) has been started
\* only when every worker of the three pools has been spawned, and has
\* been cancelled only when every worker process has exited.
C17_TimersAroundWorkers ==
    /\ (timer \in {"started", "fired"} \/ sync \in {"started", "stopped"})
          => "unborn" \notin WorkerPositions
    /\ (timer = "cancelled" \/ sync = "stopped" \/ orch.pc = "returned")
          => WorkerPositions \subseteq {"returned", "crashed"}

\* WorkloadGen.run has returned: it cancelled the abort timer, which it
\* had not started, after two KV workers had exited
C17_Witness ==
    /\ orch.pc = "returned"
    /\ timer = "cancelled"
    /\ \A sid \in KVSids : kv[sid].pc = "returned"
    /\ Cardinality(KVSids) = 2

\* C18: when a timer is configured, WorkloadGen.run has started the abort
\* timer by the time it waits for the workers, whatever ws.ops is, so that
\* its expiry can set the shutdown flag.
C18_AbortTimerStarted ==
    (timer # "none" /\ orch.pc = "wait") => timer \in {"started", "fired"}

\* C19: with creates = 0 and deletes = 0 the KV workers leave curr_items
\* and deleted_items at their initial values and resolve no create and no
\* delete token, and every key of a read lies in [0, items): in [0, 1000)
\* in scenario 1, up to curr_ops = 500.
C19_NoCreateNoDelete ==
    (ws.creates = 0 /\ ws.deletes = 0)
       => /\ curr_items = ws.items
          /\ deleted_items = 0
          /\ kv_created = EmptyBag
          /\ kv_deleted = EmptyBag
          /\ last.op \notin {"c", "d"}
          /\ (last.pool = "kv" /\ last.op = "r")
                => /\ last.key.err = "none"
                   /\ 0 <= last.key.number
                   /\ last.key.number < ws.items

\* scenario 1 has counted its 500 operations and a read of its fifth batch
\* got the last key
C19_Witness ==
    /\ ws = Scenario1
    /\ curr_ops = 500
    /\ last.pool = "kv"
    /\ last.op = "r"
    /\ last.key.number = 999

\* C20: every key number that a view worker or an N1QL read worker draws
\* lies in [deleted_items, curr_items) of the shared counters when it is
\* drawn.
C20_QueryKeysLive ==
    (last.pool \in {"view", "n1ql"} /\ last.op = "r" /\ last.key.err = "none")
       => (deleted_items <= last.key.number /\ last.key.number < curr_items)

\* C21: the i-th create of an N1QL create batch gets the key v + i - 1, v
\* being the value of curr_items that the batch read under the lock: the
\* first create gets v and every key is in the reserved block
\* [v, v + n1ql_batch_size).
C21_N1QLCreateBlock ==
    (last.pool = "n1ql" /\ last.op = "c")
       => LET w == nq[last.sid]
              issued == ws.n1ql_batch_size - w.left
              v == w.curr_items - issued
          IN  /\ last.key.number = v + issued - 1
              /\ v <= last.key.number
              /\ last.key.number < v + ws.n1ql_batch_size

\* the part of a formatted key after 'prefix-'
DigitPart(str, prefix) ==
    SubSeq(str, (IF prefix = <<>> THEN 0 ELSE Len(prefix) + 1) + 1, Len(str))

Formatted ==
    probe.gen = "decimal_fmtr" /\ probe.string # NoString

NotRandomized(self) ==
    \/ self.class \in {"String", "RefDocument"}
    \/ self.class = "JoinedDocument" /\ self.prefix = N1QLPrefix

\* C23: two calls of next(k) on the same instance of a synthesizer without
\* randomized fields (String, RefDocument, JoinedDocument with the prefix
\* 'n1ql') return the same document, whatever random.randint returns during
\* either call.
C23_SynthesisDeterministic ==
    (probe.gen = "document" /\ Len(probe.docs) = 2 /\ NotRandomized(probe.self))
       => probe.docs[1] = probe.docs[2]

\* a JoinedDocument with the prefix 'n1ql' has synthesized two documents
C23_Witness ==
    /\ probe.gen = "document"
    /\ Len(probe.docs) = 2
    /\ probe.self.class = "JoinedDocument"
    /\ probe.self.prefix = N1QLPrefix

\* C24: a batch reserves one block of new keys, [base, base + creates), and
\* one block of keys to delete, [dbase, dbase + deletes), base and dbase
\* being the values of the shared counters that its reservations read and
\* advanced by the number of create and delete tokens; every create token
\* and every delete token of the batch gets a key of the batch's own block.
C24_TokensFromOwnReservation ==
    (last.pool = "kv" /\ last.op \in {"c", "d"} /\ last.key.err = "none")
       => LET w == kv[last.sid]
          IN  /\ RandomOps(ws).c = ws.creates
              /\ RandomOps(ws).d = ws.deletes
              /\ last.op = "c" => /\ w.base <= last.key.number
                                  /\ last.key.number < w.base + ws.creates
              /\ last.op = "d" => /\ w.dbase <= last.key.number
                                  /\ last.key.number < w.dbase + ws.deletes

RatiosSum(s) ==
    s.creates + s.reads + s.updates + s.deletes + s.reads_and_updates

\* C25: when creates + reads + updates + deletes + reads_and_updates is
\* BATCH_SIZE, the command list that gen_cmd_sequence returns has exactly
\* BATCH_SIZE operations (two for each modify token), the amount that the
\* worker added to curr_ops for the batch.
C25_BatchHasBatchSizeOps ==
    \A sid \in DOMAIN kv :
        (kv[sid].pc = "cmds" /\ kv[sid].ops = NoOps /\ RatiosSum(ws) = BATCH_SIZE)
           => kv[sid].ncmds = BATCH_SIZE

\* the step is a call of restart (or its second half, after the pacing
\* sleep) for an operation of connection i of worker sid
Completion(sid, i) ==
    /\ kv[sid].pc = "reactor"
    /\ kv'[sid].pc \in {"reactor", "sleep", "ops"}
    /\ kv'[sid].pending[i] = kv[sid].pending[i] - 1

\* the step is the end of a restart of connection i that found the counter
\* at BATCH_SIZE
BatchEnd(sid, i) ==
    \/ Completion(sid, i) /\ kv[sid].counter[i] + 1 = BATCH_SIZE
                          /\ kv'[sid].pc # "sleep"
    \/ kv[sid].pc = "sleep" /\ kv[sid].conn = i /\ kv[sid].cstate[i] = "up"
                            /\ kv'[sid].pc # "sleep"

\* the step starts a batch on connection i
StartsBatch(sid, i) ==
    /\ kv[sid].pc \in {"reactor", "sleep"}
    /\ kv'[sid].pc = "ops"
    /\ kv'[sid].conn = i
    /\ kv'[sid].counter[i] = 0

\* the step calls reactor.stop()
StopsReactor(sid) ==
    kv[sid].reactor = "running" /\ kv'[sid].reactor = "stopping"

C27_NoBlockingSleep ==
    \A sid \in DOMAIN kv : ~(ws.async /\ kv[sid].pc = "sleep")

\* the step is the failure of a connect() of connection i
ConnectFails(sid, i) ==
    /\ kv[sid].pc = "reactor"
    /\ kv[sid].cstate[i] = "connecting"
    /\ kv'[sid].cstate[i] \notin {"connecting", "up"}
    /\ ~(kv[sid].reactor = "stopping" /\ kv'[sid].pc = "returned")

\* C28: a connect() that fails does not end the worker: error closes the
\* connection and sleeps, then calls connect() again, and the worker goes on
\* with its other callbacks; a connect() that succeeds, the first or a later
\* one, starts a batch on the connection; a connect() that fails again is
\* handled the same way, any number of times.
C28_ReconnectAfterFailure ==
    [][\A sid \in DOMAIN kv : \A i \in Conns :
          /\ ConnectFails(sid, i)
                => /\ kv'[sid].pc = "sleep"
                   /\ kv'[sid].conn = i
                   /\ kv'[sid].cstate[i] = "closed"
          /\ (kv[sid].pc = "sleep" /\ kv[sid].conn = i
                /\ kv[sid].cstate[i] = "closed" /\ kv'[sid] # kv[sid])
                => /\ kv'[sid].pc = "reactor"
                   /\ kv'[sid].cstate[i] = "connecting"
          /\ (kv[sid].cstate[i] = "connecting" /\ kv'[sid].cstate[i] = "up")
                => StartsBatch(sid, i)
          /\ kv[sid].cstate[i] = "closed" => kv'[sid].pc \notin Final
      ]_vars

\* the second connection is in the error handler while the batch of the
\* first one is under way
C28_Witness ==
    /\ ws = AsyncConnsRun.s
    /\ kv[0].pc = "sleep"
    /\ kv[0].conn = 2
    /\ kv[0].cstate[2] = "closed"
    /\ kv[0].counter[1] = 50
    /\ kv[0].pending[1] = 50

\* C29: with a moving working set the shared start offset is in
\* [0, live items - hot items) in every state, the first one included, so
\* the hot window [deleted_items + offset, deleted_items + offset + hot
\* items) lies inside [deleted_items, curr_items).
C29_MovingOffsetInRange ==
    ws.working_set_move_time # 0
       => LET hot == MovingNumHot(ws, curr_items, deleted_items)
              left == deleted_items + current_hot_load_start
          IN  /\ 0 <= current_hot_load_start
              /\ current_hot_load_start < MovingNumItems(ws, curr_items, deleted_items)
              /\ deleted_items <= left
              /\ left + hot <= curr_items

ZipfCalled ==
    probe.gen = "ZipfKey" /\ probe.key # NoKey

\* C30: for a draw z >= 1 ZipfKey.next returns curr_items - z whenever
\* curr_deletes <= curr_items - z, and curr_items - 1 when curr_items - z
\* is below curr_deletes.
C30_ZipfClampsBelow ==
    ZipfCalled
       => probe.key.number =
             IF probe.curr_deletes <= probe.curr_items - probe.draw
             THEN probe.curr_items - probe.draw
             ELSE probe.curr_items - 1

\* C30 as amended: for a draw z >= 1 ZipfKey.next returns curr_items - z
\* whenever curr_deletes < curr_items - z, and curr_items - 1 when
\* curr_items - z is at or below curr_deletes.
C30_ZipfClampsAtOrBelow ==
    ZipfCalled
       => probe.key.number =
             IF probe.curr_deletes < probe.curr_items - probe.draw
             THEN probe.curr_items - probe.draw
             ELSE probe.curr_items - 1

\* the draw 2 with three items, one of them deleted, falls on curr_deletes
\* and the call returns key 2
C30_Witness ==
    /\ ZipfCalled
    /\ probe.curr_items = 3
    /\ probe.curr_deletes = 1
    /\ probe.draw = 2
    /\ probe.key.number = 2

\* C31: with a throughput ceiling T the target duration of a batch is
\* BATCH_SIZE * workers / T; after a batch shorter than the target the worker
\* sleeps once, CORRECTION_FACTOR times the remaining time, and after a batch
\* at least as long as the target, or with no ceiling, it does not sleep
C31_SleepsRemainder ==
    (probe.gen = "with_sleep" /\ probe.returned) =>
        LET T      == probe.s.throughput
            \* BATCH_SIZE * workers / T seconds, in milliseconds times T
            target == BATCH_SIZE * probe.s.workers * 1000
            actual == probe.actual_time * T
        IN  IF T < Inf /\ actual < target
            THEN /\ Len(probe.sleeps) = 1
                 \* microseconds times T
                 /\ probe.sleeps[1] * T = CORRECTION_FACTOR * (target - actual)
            ELSE probe.sleeps = <<>>

\* a batch one millisecond shorter than its target of four has been slept for
C31_Witness ==
    /\ probe.gen = "with_sleep"
    /\ probe.returned
    /\ probe.s.throughput = 50000
    /\ probe.s.workers = 2
    /\ probe.actual_time = 3
    /\ probe.sleeps = <<CORRECTION_FACTOR>>

\* the k-th scan of worker sid has ended
ScanEnded(sid, k) ==
    \/ k < Len(probe.scans[sid])
    \/ k = Len(probe.scans[sid]) /\ ~probe.it[sid].running

\* the places (worker, index) of the keys yielded in the first scans
FirstScanPlaces ==
    {<<sid, i>> \in (DOMAIN probe.scans) \X (1..MaxSeqItems + 1) :
        /\ Len(probe.scans[sid]) >= 1
        /\ i <= Len(probe.scans[sid][1])}

\* C32: the scans of SequentialKey for sid = 0..workers-1 partition [0, items):
\* no number is yielded twice, none lies outside, all are yielded once every
\* scan has ended; a scan has at most items keys, and a further iteration of
\* the same object yields the same sequence
C32_SequentialScansPartition ==
    probe.gen = "SequentialKey" =>
        /\ \A p \in FirstScanPlaces :
              /\ probe.scans[p[1]][1][p[2]].err = "none"
              /\ probe.scans[p[1]][1][p[2]].number \in 0..(probe.items - 1)
        /\ \A p, q \in FirstScanPlaces :
              probe.scans[p[1]][1][p[2]].number = probe.scans[q[1]][1][q[2]].number
                  => p = q
        /\ (\A sid \in DOMAIN probe.scans : ScanEnded(sid, 1)) =>
              \A n \in 0..(probe.items - 1) :
                  \E p \in FirstScanPlaces :
                      probe.scans[p[1]][1][p[2]].number = n
        /\ \A sid \in DOMAIN probe.scans :
              /\ \A k \in 1..Len(probe.scans[sid]) :
                    Len(probe.scans[sid][k]) <= probe.items
              /\ \A k \in 2..Len(probe.scans[sid]) :
                    /\ Len(probe.scans[sid][k]) <= Len(probe.scans[sid][1])
                    /\ \A i \in 1..Len(probe.scans[sid][k]) :
                          probe.scans[sid][k][i] = probe.scans[sid][1][i]
                    /\ ScanEnded(sid, k) =>
                          probe.scans[sid][k] = probe.scans[sid][1]

\* three workers have scanned five items, and worker 1 has scanned them twice
C32_Witness ==
    /\ probe.gen = "SequentialKey"
    /\ probe.items = 5
    /\ probe.workers = 3
    /\ \A sid \in 0..2 : ScanEnded(sid, 1)
    /\ ScanEnded(1, 2)
    /\ Len(probe.scans[1][2]) = 2
    /\ probe.scans[1][2][2].number = 4

\* the SIGPWR handler runs abort
AbortBySignal ==
    "sigpwr" \in faults /\ "sigpwr" \notin faults'

\* the wall-clock Timer runs abort
AbortByTimer ==
    timer = "started" /\ timer' = "fired"

\* C33: whenever abort is invoked, by the timer or by the signal handler,
\* with or without a configured timer, the shutdown event is set afterwards
C33_AbortSetsEvent ==
    [][(AbortBySignal \/ AbortByTimer) => shutdown_event' = "set"]_vars

\* the integers of an array
Elements(array) ==
    {array[i] : i \in DOMAIN array}

\* C34: an integer of achievements1 (of achievements2) of a document built in
\* random mode is never an integer of the same field of a document built in
\* non-random mode for a key of [0, num_docs), whatever random.randint gives
C34_RandomArraysDisjoint ==
    (/\ probe.gen = "ArrayIndexingDocument"
     /\ probe.static # NoArrays
     /\ probe.random # NoArrays) =>
        /\ Elements(probe.random.achievements1)
               \cap Elements(probe.static.achievements1) = {}
        /\ Elements(probe.random.achievements2)
               \cap Elements(probe.static.achievements2) = {}

\* the last key of a population of 200 in static mode and key 0 in random
\* mode with the least shifts: the arrays are next to each other
C34_Witness ==
    /\ probe.gen = "ArrayIndexingDocument"
    /\ probe.num_docs = 2 * ARRAY_CAP
    /\ probe.array_size = 2
    /\ probe.static_key = 2 * ARRAY_CAP - 1
    /\ probe.random_key = 0
    /\ probe.static.achievements1 = <<400, 401>>
    /\ probe.random.achievements1 = <<405, 406>>
    /\ probe.static.achievements2[ARRAY_SIZE] = 29
    /\ probe.random.achievements2[1] = 2001

\* worker sid of the KV pool passes from the count of its loop to do_batch
StartsKVBatch(sid) ==
    kv[sid].pc = "ops" /\ kv'[sid].pc = "gen"

\* C35: in a pool of synchronous KV workers curr_ops is BATCH_SIZE times the
\* number of batches started (it is 0 at first, every start of a batch adds
\* BATCH_SIZE and nothing else changes it), and it never exceeds
\* ops - 1 + workers * BATCH_SIZE
C35_CurrOpsBounded ==
    /\ []((~ws.async /\ ws.workers > 0) =>
             /\ curr_ops % BATCH_SIZE = 0
             /\ curr_ops <= ws.ops - 1 + ws.workers * BATCH_SIZE)
    /\ [][(~ws.async /\ ws.workers > 0) =>
             /\ \A sid \in KVSids :
                   StartsKVBatch(sid) => curr_ops' = curr_ops + BATCH_SIZE
             /\ curr_ops' # curr_ops => \E sid \in KVSids : StartsKVBatch(sid)]_vars

\* both workers passed the test at curr_ops = ops - 1 and started a batch
C35_Witness ==
    /\ ~ws.async
    /\ ws.workers = 2
    /\ ws.ops = BATCH_SIZE + 1
    /\ curr_ops = ws.ops - 1 + ws.workers * BATCH_SIZE
    /\ \A sid \in KVSids : kv[sid].pc = "cmds"

\* C36: once an asynchronous worker has set done, none of its connections
\* starts a batch or adds BATCH_SIZE to curr_ops, and reactor.stop() is not
\* called again
C36_NoBatchAfterDone ==
    [][\A sid \in DOMAIN kv :
          (ws.async /\ kv[sid].done) =>
              /\ \A i \in Conns : ~StartsBatch(sid, i)
              /\ ~StartsKVBatch(sid)
              /\ ~StopsReactor(sid)]_vars

\* the workers that have written their latency file
Dumpers ==
    {<<"kv", sid>> : sid \in {w \in KVSids : ~ws.async /\ kv[w].pc = "returned"}}
    \cup {<<"view", sid>> : sid \in {w \in VWSids : vw[w].pc = "returned"}}
    \cup {<<"n1ql", sid>> : sid \in {w \in NQSids : nq[w].pc = "returned"}}

\* C37: no two workers of a run, of the same pool or of different pools, dump
\* to the same file name NAME-sid: there are as many files as workers that
\* have dumped
C37_DumpNamesUnique ==
    Cardinality(dumped) = Cardinality(Dumpers)

\* C38: the key numbers given to the delete tokens of the KV workers of a
\* pool are pairwise distinct, in every interleaving of the workers
C38_DeleteKeysDistinct ==
    \A k \in BagToSet(kv_deleted) : CopiesIn(k, kv_deleted) = 1

\* both workers of a pool have resolved delete tokens, the one whose token
\* was resolved last for the second time
C38_Witness ==
    /\ ws.workers = 2
    /\ ws.deletes = 2
    /\ BagCardinality(kv_deleted) >= 6
    /\ last.pool = "kv" /\ last.op = "d" /\ last.sid = 1
    /\ kv[0].dbase < kv[1].dbase
    /\ kv[0].pc = "cmds" /\ kv[0].ops.d = 0

\* C39: with every existing-key generator that init_keys can select, the
\* moving working-set generator included, read_args and modify_args of a KV
\* worker obtain a key: the call of next() does not raise
C39_ReadKeyObtained ==
    (last.pool = "kv" /\ last.op \in {"r", "m"}) => last.key.err = "none"

\* a step of query worker w: from the top of its loop it goes to dump_stats
\* when the shutdown flag is set and into a batch when it is not, and from
\* inside a batch it does not go to dump_stats
QueryLoopStep(w, wnext) ==
    /\ (w.pc = "run" /\ wnext.pc # "run")
          => IF shutdown_event = "set"
             THEN wnext.pc \in {"dump", "killed"}
             ELSE wnext.pc \notin {"dump", "returned"}
    /\ (w.pc \notin {"run", "dump", "returned"})
          => wnext.pc \notin {"dump", "returned"}

\* view worker 0 (N1QL worker 0) is at the top of its loop, the flag is not
\* set and the model's bound of batches is not reached
ViewAtTop ==
    /\ 0 \in VWSids
    /\ vw[0].pc = "run" /\ vw[0].batches < MaxViewBatches
    /\ shutdown_event # "set"

N1QLAtTop ==
    /\ 0 \in NQSids
    /\ nq[0].pc = "run" /\ nq[0].batches < MaxN1QLBatches
    /\ shutdown_event # "set"

\* C40: a view or N1QL worker leaves its loop for dump_stats only at a batch
\* boundary at which the shutdown flag is set; its steps never change
\* curr_ops, it has not left the loop while the flag is not set, whatever
\* curr_ops and ops are, and at the top of its loop it goes on: into the next
\* batch unless the flag has been set
C40_QueryLoopEndsOnShutdownOnly ==
    /\ [][/\ \A sid \in VWSids : QueryLoopStep(vw[sid], vw'[sid])
          /\ \A sid \in NQSids : QueryLoopStep(nq[sid], nq'[sid])
          /\ (vw' # vw \/ nq' # nq) => curr_ops' = curr_ops]_vars
    /\ [](shutdown_event # "set" =>
             /\ \A sid \in VWSids : vw[sid].pc \notin {"dump", "returned"}
             /\ \A sid \in NQSids : nq[sid].pc \notin {"dump", "returned"})
    /\ ViewAtTop ~> (0 \in VWSids /\ vw[0].pc # "run")
    /\ N1QLAtTop ~> (0 \in NQSids /\ nq[0].pc # "run")

\* the KV pool has counted its finite ops and returned, no shutdown flag is
\* set, and the N1QL worker is inside the batch after its first
C40_Witness ==
    /\ ws.ops # Inf
    /\ curr_ops >= ws.ops
    /\ shutdown_event # "set"
    /\ \A sid \in KVSids : kv[sid].pc = "returned"
    /\ 0 \in NQSids
    /\ nq[0].batches >= 1
    /\ nq[0].pc = "read"

====
